---- MODULE Spec2Model ----
(***************************************************************************)
(* RiftRelay admission limiter (package internal/limiter): the single      *)
(* writer event loop, the per-credential rate state, the two-class bucket  *)
(* queues and the wake heap, as a state machine.                           *)
(*                                                                         *)
(* Time is a natural number of ticks.  The zero time.Time is 0 and the     *)
(* clock starts at 1, so IsZero() is "= 0" and After/Before are > and <.   *)
(* A nil *time.Time is Nil.                                                *)
(***************************************************************************)
EXTENDS Integers, Sequences, FiniteSets, TLC

\* ------------------------------------------------------------------ bounds
\* Last tick the clock reaches.
MaxTime == 3
\* Number of calls (Admit, Observe, Close) and context cancellations made in
\* one behaviour.
MaxCalls == 4
\* Number of calls made on the rate state exercised on its own.
MaxRateCalls == 2

\* ------------------------------------------------- configuration (Config)
\* Ticks in one time.Second.
Second == 2
\* Capacity of observeCh (256 in New), scaled to the number of Observe calls.
ObserveChCap == 1
\* Comma-separated entries per rate-limit header.
MaxEntries == 2
\* Largest maxRetries handed to the retry transport.
MaxRetriesBound == 2
\* Calls of the runs with an advancing clock.
MaxLiveCalls == 3
\* Reserve calls on one ratelimit.State.
MaxReserves == 3
\* The 5 ms retry wake of dispatch, in ticks.
RetryWake == 1

Nil == -1
ZeroTime == 0

Max2(a, b) == IF a > b THEN a ELSE b
Min2(a, b) == IF a < b THEN a ELSE b

SetMax(S) == CHOOSE x \in S : \A y \in S : y <= x

\* ------------------------------------------------------------- rate state
\* rateState{} : no windows, zero blockedUntil, zero lastGranted.
EmptyRateState == [windows |-> << >>, blockedUntil |-> ZeroTime, lastGranted |-> ZeroTime]

\* refreshWindow without the expiry test: every visit restarts the window.
refreshWindowAlways(w, now) == [w EXCEPT !.used = 0, !.resetAt = now + w.window]

\* The refresh of an expired window, shared by nextAllowed and consume.
refreshWindow(w, now) ==
    IF ~(w.resetAt > now)
    THEN [w EXCEPT !.used = 0, !.resetAt = now + w.window]
    ELSE w

\* The window list nextAllowed leaves behind: every window is visited.
nextAllowedWindows(s, now) ==
    [i \in DOMAIN s.windows |-> refreshWindow(s.windows[i], now)]

RECURSIVE nextAllowedFromEvenSlots(_, _, _, _, _, _)
\* nextAllowed's loop with the pacing interval window / limit, whatever is
\* left of the window and of its budget.
nextAllowedFromEvenSlots(ws, i, next, now, lastGranted, bypassPacing) ==
    IF i > Len(ws) THEN next
    ELSE LET w == ws[i]
             interval == w.window \div w.limit
             nextSlot == lastGranted + interval
             pacedAt == IF lastGranted # ZeroTime /\ nextSlot > now THEN nextSlot ELSE now
         IN  IF w.used >= w.limit /\ w.resetAt > next
             THEN nextAllowedFromEvenSlots(ws, i + 1, w.resetAt, now, lastGranted,
                                           bypassPacing)
             ELSE IF bypassPacing \/ w.used >= w.limit \/ interval <= 0
             THEN nextAllowedFromEvenSlots(ws, i + 1, next, now, lastGranted, bypassPacing)
             ELSE nextAllowedFromEvenSlots(ws, i + 1, Max2(next, pacedAt), now,
                                           lastGranted, bypassPacing)

RECURSIVE nextAllowedFromNominalGap(_, _, _, _, _, _)
\* nextAllowed's loop pacing one nominal interval (window / limit) after now
\* instead of spreading the time left from the last grant.
nextAllowedFromNominalGap(ws, i, next, now, lastGranted, bypassPacing) ==
    IF i > Len(ws) THEN next
    ELSE LET w == ws[i]
             interval == w.window \div w.limit
             pacedAt == IF lastGranted # ZeroTime THEN now + interval ELSE now
         IN  IF w.used >= w.limit /\ w.resetAt > next
             THEN nextAllowedFromNominalGap(ws, i + 1, w.resetAt, now, lastGranted,
                                            bypassPacing)
             ELSE IF bypassPacing \/ w.used >= w.limit \/ interval <= 0
             THEN nextAllowedFromNominalGap(ws, i + 1, next, now, lastGranted, bypassPacing)
             ELSE nextAllowedFromNominalGap(ws, i + 1, Max2(next, pacedAt), now,
                                            lastGranted, bypassPacing)

RECURSIVE nextAllowedFrom(_, _, _, _, _, _)
\* The body of nextAllowed's loop from window i on; ws is already refreshed.
nextAllowedFrom(ws, i, next, now, lastGranted, bypassPacing) ==
    IF i > Len(ws) THEN next
    ELSE LET w == ws[i]
             requestsLeft == w.limit - w.used
             timeLeft == w.resetAt - now
             interval == IF requestsLeft > 0 THEN timeLeft \div requestsLeft ELSE 0
             nextSlot == lastGranted + interval
             pacedAt == IF lastGranted # ZeroTime /\ nextSlot > now THEN nextSlot ELSE now
         IN  IF w.used >= w.limit /\ w.resetAt > next
             THEN nextAllowedFrom(ws, i + 1, w.resetAt, now, lastGranted, bypassPacing)
             ELSE IF bypassPacing \/ requestsLeft <= 0 \/ timeLeft <= 0 \/ interval <= 0
             THEN nextAllowedFrom(ws, i + 1, next, now, lastGranted, bypassPacing)
             ELSE nextAllowedFrom(ws, i + 1, Max2(next, pacedAt), now, lastGranted, bypassPacing)

\* nextAllowed that reports every scope ready at once.
nextAllowedAtOnce(s, now, bypassPacing) == now

\* nextAllowed that never paces, whatever bypassPacing says.
nextAllowedNeverPaced(s, now, bypassPacing) ==
    nextAllowedFrom(nextAllowedWindows(s, now), 1,
                    Max2(now, s.blockedUntil), now, s.lastGranted, TRUE)

\* nextAllowed that paces whatever bypassPacing says.
nextAllowedAlwaysPaced(s, now, bypassPacing) ==
    nextAllowedFrom(nextAllowedWindows(s, now), 1,
                    Max2(now, s.blockedUntil), now, s.lastGranted, FALSE)

\* nextAllowed's return value.
nextAllowed(s, now, bypassPacing) ==
    nextAllowedFrom(nextAllowedWindows(s, now), 1,
                    Max2(now, s.blockedUntil), now, s.lastGranted, bypassPacing)

\* The rate state after a nextAllowed call (it refreshes expired windows in place).
nextAllowedState(s, now) == [s EXCEPT !.windows = nextAllowedWindows(s, now)]

RECURSIVE consumeScanCharging(_, _, _)
\* A scan that charges each window as soon as it has passed the test.
consumeScanCharging(ws, i, now) ==
    IF i > Len(ws) THEN [ok |-> TRUE, windows |-> ws]
    ELSE LET w == refreshWindow(ws[i], now)
         IN  IF w.used >= w.limit
             THEN [ok |-> FALSE, windows |-> [ws EXCEPT ![i] = w]]
             ELSE consumeScanCharging([ws EXCEPT ![i] = [w EXCEPT !.used = @ + 1]],
                                      i + 1, now)

RECURSIVE consumeScan(_, _, _)
\* consume's first loop: refresh window i, stop at the first full window.
consumeScan(ws, i, now) ==
    IF i > Len(ws) THEN [ok |-> TRUE, windows |-> ws]
    ELSE LET w == refreshWindow(ws[i], now)
             ws2 == [ws EXCEPT ![i] = w]
         IN  IF w.used >= w.limit
             THEN [ok |-> FALSE, windows |-> ws2]
             ELSE consumeScan(ws2, i + 1, now)

\* consume that does not record the grant: lastGranted keeps its old value.
consumeNoGrant(s, now) ==
    IF s.blockedUntil > now THEN [ok |-> FALSE, state |-> s]
    ELSE LET r == consumeScan(s.windows, 1, now)
         IN  IF r.ok
             THEN [ok |-> TRUE,
                   state |-> [s EXCEPT
                       !.windows = [i \in DOMAIN r.windows |->
                                      [r.windows[i] EXCEPT !.used = @ + 1]]]]
             ELSE [ok |-> FALSE, state |-> [s EXCEPT !.windows = r.windows]]

\* consume(now): [ok, state], the return value and the rate state afterwards.
consume(s, now) ==
    IF s.blockedUntil > now THEN [ok |-> FALSE, state |-> s]
    ELSE LET r == consumeScan(s.windows, 1, now)
         IN  IF r.ok
             THEN [ok |-> TRUE,
                   state |-> [s EXCEPT
                       !.windows = [i \in DOMAIN r.windows |->
                                      [r.windows[i] EXCEPT !.used = @ + 1]],
                       !.lastGranted = now]]
             ELSE [ok |-> FALSE, state |-> [s EXCEPT !.windows = r.windows]]

\* existing[d] of apply: the last window of the old list whose duration is d.
existingHas(ws, d) == \E i \in DOMAIN ws : ws[i].window = d
existingAt(ws, d) == ws[SetMax({i \in DOMAIN ws : ws[i].window = d})]

\* A loop body that anchors every window at now, active predecessor or not.
applyWindowReanchor(parsed, old, now, additionalWindow) ==
    LET window == parsed.window + additionalWindow
        used0 == IF parsed.count > parsed.limit THEN parsed.limit ELSE parsed.count
        keep == existingHas(old, window) /\ existingAt(old, window).resetAt > now
    IN  [limit |-> parsed.limit,
         used |-> IF keep /\ existingAt(old, window).used > used0
                  THEN existingAt(old, window).used ELSE used0,
         window |-> window,
         resetAt |-> now + window]

\* A loop body that takes the advertised count, whatever was used locally.
applyWindowOverwrite(parsed, old, now, additionalWindow) ==
    LET window == parsed.window + additionalWindow
        used0 == IF parsed.count > parsed.limit THEN parsed.limit ELSE parsed.count
        keep == existingHas(old, window) /\ existingAt(old, window).resetAt > now
    IN  [limit |-> parsed.limit,
         used |-> used0,
         window |-> window,
         resetAt |-> IF keep THEN existingAt(old, window).resetAt ELSE now + window]

\* One parsed window materialised by apply's loop body.
applyWindow(parsed, old, now, additionalWindow) ==
    LET window == parsed.window + additionalWindow
        used0 == IF parsed.count > parsed.limit THEN parsed.limit ELSE parsed.count
        keep == existingHas(old, window) /\ existingAt(old, window).resetAt > now
    IN  [limit |-> parsed.limit,
         used |-> IF keep /\ existingAt(old, window).used > used0
                  THEN existingAt(old, window).used ELSE used0,
         window |-> window,
         resetAt |-> IF keep THEN existingAt(old, window).resetAt ELSE now + window]

RECURSIVE applyWindows(_, _, _, _, _)
\* apply's loop over the parsed windows from index i: the list "updated".
applyWindows(windows, i, old, now, additionalWindow) ==
    IF i > Len(windows) THEN << >>
    ELSE IF windows[i].limit <= 0 \/ windows[i].window <= 0
         THEN applyWindows(windows, i + 1, old, now, additionalWindow)
         ELSE <<applyWindow(windows[i], old, now, additionalWindow)>>
              \o applyWindows(windows, i + 1, old, now, additionalWindow)

\* seenCount of apply: some materialised window has a clamped count > 0.
applySeenCount(windows) ==
    \E i \in DOMAIN windows :
        /\ ~(windows[i].limit <= 0 \/ windows[i].window <= 0)
        /\ Min2(windows[i].count, windows[i].limit) > 0

\* An apply that never anchors lastGranted.
applyNoAnchor(s, windows, retryAfter, applyRetry, now, additionalWindow) ==
    LET ws == IF Len(windows) > 0
              THEN applyWindows(windows, 1, s.windows, now, additionalWindow)
              ELSE s.windows
        bu == IF applyRetry /\ retryAfter # Nil /\ retryAfter > s.blockedUntil
              THEN retryAfter ELSE s.blockedUntil
    IN  [windows |-> ws, blockedUntil |-> bu, lastGranted |-> s.lastGranted]

\* An apply that installs the parsed list even when it is empty.
applyReplaceAlways(s, windows, retryAfter, applyRetry, now, additionalWindow) ==
    LET ws == applyWindows(windows, 1, s.windows, now, additionalWindow)
        lg == IF s.lastGranted = ZeroTime /\ applySeenCount(windows)
              THEN now ELSE s.lastGranted
        bu == IF applyRetry /\ retryAfter # Nil /\ retryAfter > s.blockedUntil
              THEN retryAfter ELSE s.blockedUntil
    IN  [windows |-> ws, blockedUntil |-> bu, lastGranted |-> lg]

\* An apply that stores every applicable Retry-After, later or not.
applyRetryUnchecked(s, windows, retryAfter, applyRetry, now, additionalWindow) ==
    LET ws == IF Len(windows) > 0
              THEN applyWindows(windows, 1, s.windows, now, additionalWindow)
              ELSE s.windows
        lg == IF s.lastGranted = ZeroTime /\ applySeenCount(windows)
              THEN now ELSE s.lastGranted
        bu == IF applyRetry /\ retryAfter # Nil THEN retryAfter ELSE s.blockedUntil
    IN  [windows |-> ws, blockedUntil |-> bu, lastGranted |-> lg]

\* apply(windows, retryAfter, applyRetry, now, additionalWindow).
apply(s, windows, retryAfter, applyRetry, now, additionalWindow) ==
    LET ws == IF Len(windows) > 0
              THEN applyWindows(windows, 1, s.windows, now, additionalWindow)
              ELSE s.windows
        lg == IF s.lastGranted = ZeroTime /\ applySeenCount(windows)
              THEN now ELSE s.lastGranted
        bu == IF applyRetry /\ retryAfter # Nil /\ retryAfter > s.blockedUntil
              THEN retryAfter ELSE s.blockedUntil
    IN  [windows |-> ws, blockedUntil |-> bu, lastGranted |-> lg]

\* ---------------------------------------------------------- header parsing
\* A header value is the list of its comma-separated entries; an entry is
\* [kind, a, b]: "pair" is "a:b" with two integers, "intjunk" is "a:<junk>",
\* "junkint" is "<junk>:b", "nocolon" has no colon and "empty" is "".
\* A Retry-After value is [kind, v]: "empty", "secs" (an integer v), "date"
\* (an HTTP-date at tick v) or "junk".
Pair(a, b) == [kind |-> "pair", a |-> a, b |-> b]
NoHeader == << >>
RetryEmpty == [kind |-> "empty", v |-> 0]
RetrySecs(n) == [kind |-> "secs", v |-> n]
RetryDate(t) == [kind |-> "date", v |-> t]

\* parseRetryAfter(v, now): Nil, or the instant the header names.
parseRetryAfter(v, now) ==
    IF v.kind = "empty" THEN Nil
    ELSE IF v.kind = "secs" /\ v.v >= 0 THEN now + v.v * Second
    ELSE IF v.kind = "date" THEN (IF v.v < now THEN now ELSE v.v)
    ELSE Nil

\* The count paired with limit entry i: counts[i] when it has two parts and a
\* non-negative integer first part, else 0.
parseCount(counts, i) ==
    IF i <= Len(counts) /\ counts[i].kind \in {"pair", "intjunk"} /\ counts[i].a >= 0
    THEN counts[i].a ELSE 0

RECURSIVE parseRateEntries(_, _, _)
\* parseRateHeader's loop from entry i.
parseRateEntries(limits, counts, i) ==
    IF i > Len(limits) THEN << >>
    ELSE IF limits[i].kind # "pair" \/ limits[i].a <= 0 \/ limits[i].b <= 0
         THEN parseRateEntries(limits, counts, i + 1)
         ELSE <<[limit |-> limits[i].a, count |-> parseCount(counts, i),
                 window |-> limits[i].b * Second]>>
              \o parseRateEntries(limits, counts, i + 1)

\* A parser without the test of the first entry.
parseRateHeaderAnyFirst(limitHeader, countHeader) ==
    parseRateEntries(limitHeader, countHeader, 1)

\* parseRateHeader(limitHeader, countHeader).
parseRateHeader(limitHeader, countHeader) ==
    IF Len(limitHeader) = 0 \/ limitHeader[1].kind = "empty" THEN << >>
    ELSE parseRateEntries(limitHeader, countHeader, 1)

\* strings.ToLower(strings.TrimSpace(v)) on the X-Rate-Limit-Type values used.
toLowerTrim(v) ==
    CASE v \in {"method", "Method", "METHOD", " method "} -> "method"
      [] v \in {"application", "Application"} -> "application"
      [] OTHER -> v

\* ------------------------------------------------------------ bucket queue
\* Admit calls are numbered 1..MaxCalls; NoReq is the nil *admitRequest.
NoReq == 0
Requests == 1 .. MaxCalls
PriorityNormal == 0
PriorityHigh == 1

\* A bucketQueue the map does not hold yet (buckets[b] == nil).
NilBucket == [exists |-> FALSE, region |-> "", high |-> << >>, normal |-> << >>,
              wakeAt |-> ZeroTime, heapIndex |-> -1]

\* bucketQueue.depth.
depth(bq) == Len(bq.high) + Len(bq.normal)

\* An enqueue that appends the request twice.
enqueueTwice(bq, req, priority) ==
    IF priority = PriorityHigh
    THEN [bq EXCEPT !.high = Append(Append(@, req), req)]
    ELSE [bq EXCEPT !.normal = Append(Append(@, req), req)]

\* bucketQueue.enqueue.
enqueue(bq, req, priority) ==
    IF priority = PriorityHigh
    THEN [bq EXCEPT !.high = Append(@, req)]
    ELSE [bq EXCEPT !.normal = Append(@, req)]

RECURSIVE dropCancelled(_, _)
\* One for-loop of dequeueValid: the queue from its first live request on.
dropCancelled(q, ctxErr) ==
    IF q = << >> THEN << >>
    ELSE IF ~ctxErr[Head(q)] THEN q
    ELSE dropCancelled(Tail(q), ctxErr)

\* dequeueValid that scans the normal queue before the high queue.
dequeueValidNormalFirst(bq, ctxErr) ==
    LET h == dropCancelled(bq.high, ctxErr)
        n == dropCancelled(bq.normal, ctxErr)
    IN  IF n # << >>
        THEN [req |-> Head(n), bq |-> [bq EXCEPT !.normal = Tail(n)]]
        ELSE IF h # << >>
        THEN [req |-> Head(h), bq |-> [bq EXCEPT !.normal = << >>, !.high = Tail(h)]]
        ELSE [req |-> NoReq, bq |-> [bq EXCEPT !.high = << >>, !.normal = << >>]]

\* dequeueValid without the ctx.Err() test: the head is returned as it is.
dequeueValidAnyCtx(bq, ctxErr) ==
    IF bq.high # << >>
    THEN [req |-> Head(bq.high), bq |-> [bq EXCEPT !.high = Tail(@)]]
    ELSE IF bq.normal # << >>
    THEN [req |-> Head(bq.normal), bq |-> [bq EXCEPT !.normal = Tail(@)]]
    ELSE [req |-> NoReq, bq |-> bq]

\* bucketQueue.dequeueValid: [req, bq]; ctxErr[r] is req.ctx.Err() != nil.
dequeueValid(bq, ctxErr) ==
    LET h == dropCancelled(bq.high, ctxErr)
        n == dropCancelled(bq.normal, ctxErr)
    IN  IF h # << >>
        THEN [req |-> Head(h), bq |-> [bq EXCEPT !.high = Tail(h)]]
        ELSE IF n # << >>
        THEN [req |-> Head(n), bq |-> [bq EXCEPT !.high = << >>, !.normal = Tail(n)]]
        ELSE [req |-> NoReq, bq |-> [bq EXCEPT !.high = << >>, !.normal = << >>]]

\* A put-back that appends the deferred request at the tail of its queue.
putBackTail(bq, req, priority) ==
    IF priority = PriorityHigh
    THEN [bq EXCEPT !.high = Append(@, req)]
    ELSE [bq EXCEPT !.normal = Append(@, req)]

\* dispatch's "put request back at head of corresponding queue".
putBack(bq, req, priority) ==
    IF priority = PriorityHigh
    THEN [bq EXCEPT !.high = <<req>> \o @]
    ELSE [bq EXCEPT !.normal = <<req>> \o @]

\* --------------------------------------------------------------- wake heap
\* A heap state H is [buckets, wakeups]: wakeups is the wakeHeap slice (of
\* bucket names, element i of Go at position i + 1) and heapIndex/wakeAt live
\* in the bucket records, as in the source.  Indices are Go's, from 0.
heapLess(H, i, j) ==
    H.buckets[H.wakeups[i + 1]].wakeAt < H.buckets[H.wakeups[j + 1]].wakeAt

heapSwap(H, i, j) ==
    LET bi == H.wakeups[i + 1]
        bj == H.wakeups[j + 1]
        w2 == [H.wakeups EXCEPT ![i + 1] = bj, ![j + 1] = bi]
    IN  [buckets |-> [b \in DOMAIN H.buckets |->
                        IF b = w2[j + 1] THEN [H.buckets[b] EXCEPT !.heapIndex = j]
                        ELSE IF b = w2[i + 1] THEN [H.buckets[b] EXCEPT !.heapIndex = i]
                        ELSE H.buckets[b]],
         wakeups |-> w2]

RECURSIVE heapUp(_, _)
\* container/heap up(h, j).
heapUp(H, j) ==
    LET i == (j - 1) \div 2
    IN  IF j <= 0 \/ i = j \/ ~heapLess(H, j, i) THEN H
        ELSE heapUp(heapSwap(H, i, j), i)

RECURSIVE heapDownAt(_, _, _)
\* container/heap down(h, i, n): the heap afterwards.
heapDownAt(H, i, n) ==
    LET j1 == 2 * i + 1
        j2 == j1 + 1
        j == IF j1 < n /\ j2 < n /\ heapLess(H, j2, j1) THEN j2 ELSE j1
    IN  IF j1 >= n THEN H
        ELSE IF ~heapLess(H, j, i) THEN H
        ELSE heapDownAt(heapSwap(H, i, j), j, n)

\* down's return value (i > i0): whether the element moved.
heapDownMoved(H, i, n) ==
    LET j1 == 2 * i + 1
        j2 == j1 + 1
        j == IF j1 < n /\ j2 < n /\ heapLess(H, j2, j1) THEN j2 ELSE j1
    IN  j1 < n /\ heapLess(H, j, i)

\* wakeHeap.Pop: drop the last element, heapIndex = -1.
heapDropLast(H) ==
    LET last == Len(H.wakeups)
        item == H.wakeups[last]
    IN  [buckets |-> [H.buckets EXCEPT ![item].heapIndex = -1],
         wakeups |-> SubSeq(H.wakeups, 1, last - 1)]

\* heap.Push(h, bucket).
heapPush(H, b) ==
    LET n == Len(H.wakeups)
        H1 == [buckets |-> [H.buckets EXCEPT ![b].heapIndex = n],
               wakeups |-> Append(H.wakeups, b)]
    IN  heapUp(H1, n)

\* heap.Pop(h).
heapPop(H) ==
    LET n == Len(H.wakeups) - 1
    IN  heapDropLast(heapDownAt(heapSwap(H, 0, n), 0, n))

\* heap.Fix(h, i).
heapFix(H, i) ==
    IF heapDownMoved(H, i, Len(H.wakeups))
    THEN heapDownAt(H, i, Len(H.wakeups))
    ELSE heapUp(H, i)

\* heap.Remove(h, i).
heapRemove(H, i) ==
    LET n == Len(H.wakeups) - 1
        H1 == IF n # i THEN heapSwap(H, i, n) ELSE H
        H2 == IF n # i
              THEN (IF heapDownMoved(H1, i, n) THEN heapDownAt(H1, i, n) ELSE heapUp(H1, i))
              ELSE H1
    IN  heapDropLast(H2)

\* A removeWake that clears wakeAt and leaves the heap alone.
removeWakeKeepsEntry(H, b) == [H EXCEPT !.buckets[b].wakeAt = ZeroTime]

\* removeWake(h, bucket).
removeWake(H, b) ==
    IF H.buckets[b].heapIndex < 0
    THEN [H EXCEPT !.buckets[b].wakeAt = ZeroTime]
    ELSE LET H1 == heapRemove(H, H.buckets[b].heapIndex)
         IN  [H1 EXCEPT !.buckets[b].wakeAt = ZeroTime]

\* An upsertWake that records nothing.
upsertWakeDropped(H, b, at) == H

\* upsertWake(h, bucket, at).
upsertWake(H, b, at) ==
    IF at = ZeroTime THEN removeWake(H, b)
    ELSE LET H1 == [H EXCEPT !.buckets[b].wakeAt = at]
         IN  IF H1.buckets[b].heapIndex >= 0
             THEN heapFix(H1, H1.buckets[b].heapIndex)
             ELSE heapPush(H1, b)

\* ------------------------------------------------------------------ inputs
Regions == {"na1", "euw1"}
Buckets == {"na1:a", "na1:b", "euw1:a"}
\* The region a canonical bucket name "<region>:<path>" starts with.

StatusOK == 200
StatusTooManyRequests == 429

Admission(region, bucket, priority) ==
    [Region |-> region, Bucket |-> bucket, Priority |-> priority]

Header(retry, type, al, ac, ml, mc) ==
    [RetryAfter |-> retry, LimitType |-> type, AppLimit |-> al, AppCount |-> ac,
     MethodLimit |-> ml, MethodCount |-> mc]

Observation(region, bucket, keyIndex, status, header) ==
    [Region |-> region, Bucket |-> bucket, KeyIndex |-> keyIndex,
     StatusCode |-> status, Header |-> header]

\* Upstream response headers: a method limit of 2 per second with nothing
\* used, a method limit of 1 per second already used, a method Retry-After of
\* one second, and an app limit of 2 per second fully used with a Retry-After.
MethodTwo == Header(RetryEmpty, "", NoHeader, NoHeader, <<Pair(2, 1)>>, <<Pair(0, 1)>>)
MethodOneUsed == Header(RetryEmpty, "", NoHeader, NoHeader, <<Pair(1, 1)>>, <<Pair(1, 1)>>)
MethodRetry == Header(RetrySecs(1), "Method", NoHeader, NoHeader, NoHeader, NoHeader)
AppTwoUsed == Header(RetrySecs(1), "application", <<Pair(2, 1)>>, <<Pair(2, 1)>>,
                     NoHeader, NoHeader)

\* Further headers: an application Retry-After of one second, a method
\* Retry-After given as an HTTP date (instant 3), and a method limit of 2 per
\* second with one used that also carries a Retry-After.
AppRetry == Header(RetrySecs(1), "application", NoHeader, NoHeader, NoHeader, NoHeader)
MethodRetryDate == Header(RetryDate(3), "METHOD", NoHeader, NoHeader, NoHeader, NoHeader)
MethodTwoRetry == Header(RetrySecs(1), "method", NoHeader, NoHeader,
                         <<Pair(2, 1)>>, <<Pair(1, 1)>>)

\* Config{KeyCount, QueueCapacity, AdditionalWindow, DefaultAppLimits};
\* DefaultAppLimits "3:1" is <<Pair(3, 1)>>.
Config(keyCount, queueCapacity, additionalWindow, defaultAppLimits) ==
    [KeyCount |-> keyCount, QueueCapacity |-> queueCapacity,
     AdditionalWindow |-> additionalWindow, DefaultAppLimits |-> defaultAppLimits]

\* The default of scenario S4: 3 requests per second.
ColdStartLimits == <<Pair(3, 1)>>

\* The calls made on one bucket of one region: admissions of both priorities
\* and observations of credential 0.
OneBucket ==
    [admissions |-> {Admission("na1", "na1:a", PriorityNormal),
                     Admission("na1", "na1:a", PriorityHigh)},
     observations |-> {Observation("na1", "na1:a", 0, StatusOK, MethodTwo),
                       Observation("na1", "na1:a", 0, StatusOK, MethodOneUsed),
                       Observation("na1", "na1:a", 0, StatusTooManyRequests, MethodRetry),
                       Observation("na1", "na1:a", 0, StatusTooManyRequests, AppTwoUsed)}]

\* Observations of two credentials and two buckets, with 429 and 200
\* responses, every spelling of X-Rate-Limit-Type, and observations the loop
\* must ignore (KeyIndex out of range, empty region, empty bucket).
ObserveCases ==
    [admissions |-> {Admission("na1", "na1:a", PriorityNormal)},
     observations |-> {Observation("na1", "na1:a", 0, StatusTooManyRequests, MethodRetry),
                       Observation("na1", "na1:a", 0, StatusTooManyRequests, MethodRetryDate),
                       Observation("na1", "na1:b", 1, StatusTooManyRequests, MethodRetry),
                       Observation("na1", "na1:a", 0, StatusTooManyRequests, AppRetry),
                       Observation("na1", "na1:a", 1, StatusTooManyRequests, MethodTwo),
                       Observation("na1", "na1:a", 0, StatusOK, MethodTwoRetry),
                       Observation("na1", "na1:a", 2, StatusTooManyRequests, MethodRetry),
                       Observation("na1", "na1:a", -1, StatusTooManyRequests, AppRetry),
                       Observation("", "na1:a", 0, StatusTooManyRequests, AppRetry),
                       Observation("na1", "", 0, StatusTooManyRequests, MethodRetry)}]

\* Scenario S5 and a second region: an app limit of 4 per 2 s is seen with 0,
\* 1 or 3 requests used while requests of two regions are admitted.
AppFour(count) ==
    Header(RetryEmpty, "", <<Pair(4, 2)>>, <<Pair(count, 2)>>, NoHeader, NoHeader)
RegionCases ==
    [admissions |-> {Admission("na1", "na1:a", PriorityNormal),
                     Admission("euw1", "euw1:a", PriorityNormal)},
     observations |-> {Observation("na1", "na1:a", 0, StatusOK, AppFour(0)),
                       Observation("na1", "na1:a", 0, StatusOK, AppFour(1)),
                       Observation("na1", "na1:a", 0, StatusOK, AppFour(3))}]

\* Two buckets of one region paced by the region's app limit.
BucketCases ==
    [admissions |-> {Admission("na1", "na1:a", PriorityNormal),
                     Admission("na1", "na1:b", PriorityNormal)},
     observations |-> {Observation("na1", "na1:a", 0, StatusOK, AppFour(1)),
                       Observation("na1", "na1:a", 0, StatusOK, AppFour(3))}]

\* One credential: a method Retry-After that makes a request wait, and
\* observations the loop must ignore.
IgnoredCases ==
    [admissions |-> {Admission("na1", "na1:a", PriorityNormal)},
     observations |-> {Observation("na1", "na1:a", 0, StatusTooManyRequests, MethodRetry),
                       Observation("na1", "na1:a", 1, StatusTooManyRequests, AppRetry),
                       Observation("na1", "na1:a", -1, StatusTooManyRequests, AppRetry),
                       Observation("", "na1:a", 0, StatusTooManyRequests, MethodRetry),
                       Observation("na1", "", 0, StatusTooManyRequests, AppRetry)}]

\* ------------------------------------------------------------------- state
VARIABLES
    now,        \* Clock.Now()
    loopAlive,  \* the loop goroutine has not returned
    keys,       \* loop: keys[k] = [app: region -> rateState, method: bucket -> rateState]
    buckets,    \* loop: buckets map, bucket name -> bucketQueue (NilBucket when absent)
    wakeups,    \* loop: the wakeHeap
    observeCh,  \* number of observations buffered in observeCh
    callCount,  \* calls and cancellations made so far
    pc,         \* Admit call r: "idle", "sending", "waiting", "done"
    adm,        \* Admit call r: its Admission
    ctxErr,     \* Admit call r: ctx.Err() != nil
    resp,       \* Admit call r: contents of req.resp (capacity 1)
    result,     \* Admit call r: what Admit returned
    closePc,    \* Close call: "idle", "sending", "waiting", "returned"
    cfg,        \* Limiter.cfg: KeyCount, QueueCapacity, AdditionalWindow
    calls,      \* the Admission and Observation values the callers pass
    history,    \* history: enqueue and ticket events of the loop, in order
    step,       \* history: what the latest loop iteration did
    rs,         \* a rateState exercised on its own (SpecRate)
    rsOp,       \* history: the latest call made on rs
    http,       \* proxy adapter: what admissionMiddleware did with request r
    hdr,        \* a rate-limit header pair and what parseRateHeader made of it
    rt,         \* one RoundTrip of the retry-on-429 transport
    st          \* a ratelimit.State and the reservations handed out on it

vars == <<now, loopAlive, keys, buckets, wakeups, observeCh, callCount,
          pc, adm, ctxErr, resp, result, closePc, cfg, calls, history, step, rs, rsOp, http, hdr, rt, st>>

NoResult == [kind |-> "none", key |-> -1, reason |-> "", retryAfter |-> 0]
TicketReply(k) == [kind |-> "ticket", key |-> k, reason |-> "", retryAfter |-> 0]
Rejected(reason, retryAfter) ==
    [kind |-> "rejected", key |-> -1, reason |-> reason, retryAfter |-> retryAfter]
CtxError == [kind |-> "ctx", key |-> -1, reason |-> "", retryAfter |-> 0]

\* No upstream outcome yet, and no response returned.
NoOutcome == [kind |-> "none", status |-> 0, retryAfter |-> [kind |-> "absent", n |-> 0]]
NoResponse == 0

\* RoundTrip has not been called.
NoRoundTrip == [impl |-> "", maxRetries |-> 0, body |-> "none", pc |-> "idle", attempt |-> 0,
                calls |-> 0, ctxDone |-> FALSE, last |-> NoOutcome, resp |-> NoResponse,
                err |-> "none", delay |-> 0]

\* No ratelimit.State built yet.
NoState == [built |-> FALSE, buckets |-> << >>, lastNormal |-> ZeroTime, reserved |-> << >>]

\* No header pair parsed yet.
NoParse == [limit |-> << >>, count |-> << >>, out |-> << >>, parsed |-> FALSE]

\* Nothing written to the ResponseWriter and next.ServeHTTP not called.
NoReply == [status |-> 0, retryAfter |-> -1, forwarded |-> FALSE]

NoOp == [name |-> "none", pre |-> EmptyRateState, at |-> 0, ok |-> FALSE,
         ret |-> 0, bypass |-> FALSE]

\* No observation: what step.obs holds outside the observe case.
NoObs == [Region |-> "", Bucket |-> "", KeyIndex |-> -1, StatusCode |-> 0,
          Header |-> [RetryAfter |-> RetryEmpty, LimitType |-> "", AppLimit |-> << >>,
                      AppCount |-> << >>, MethodLimit |-> << >>, MethodCount |-> << >>]]

NoStep == [op |-> "none", issued |-> << >>, skipped |-> {}, retried |-> FALSE,
           dispatched |-> << >>, obs |-> NoObs]

\* keyState.app(region) / keyState.method(bucket): a missing entry is created
\* as rateState{}, so every scope exists as EmptyRateState from the start.
newKeyState ==
    [app |-> [r \in Regions |-> EmptyRateState],
     method |-> [b \in Buckets |-> EmptyRateState]]

\* ------------------------------------------------------------ the loop
SeqToSet(q) == {q[i] : i \in DOMAIN q}

\* readyAt of pickKey for credential i.
readyAt(ks, i, now_, region, bucket, bypassPacing) ==
    Max2(nextAllowed(ks[i].app[region], now_, bypassPacing),
         nextAllowed(ks[i].method[bucket], now_, bypassPacing))

RECURSIVE pickKeyFromLastTie(_, _, _, _, _, _, _, _)
\* A loop that replaces the best credential also on an equal ready time.
pickKeyFromLastTie(ks, i, bestIndex, bestAt, now_, region, bucket, bypassPacing) ==
    IF i \notin DOMAIN ks THEN [index |-> bestIndex, at |-> bestAt]
    ELSE LET r == readyAt(ks, i, now_, region, bucket, bypassPacing)
         IN  IF bestIndex < 0 \/ r <= bestAt
             THEN pickKeyFromLastTie(ks, i + 1, i, r, now_, region, bucket, bypassPacing)
             ELSE pickKeyFromLastTie(ks, i + 1, bestIndex, bestAt, now_, region, bucket,
                                     bypassPacing)

RECURSIVE pickKeyFrom(_, _, _, _, _, _, _, _)
\* pickKey's loop from credential i with the best found so far.
pickKeyFrom(ks, i, bestIndex, bestAt, now_, region, bucket, bypassPacing) ==
    IF i \notin DOMAIN ks THEN [index |-> bestIndex, at |-> bestAt]
    ELSE LET r == readyAt(ks, i, now_, region, bucket, bypassPacing)
         IN  IF bestIndex < 0 \/ r < bestAt
             THEN pickKeyFrom(ks, i + 1, i, r, now_, region, bucket, bypassPacing)
             ELSE pickKeyFrom(ks, i + 1, bestIndex, bestAt, now_, region, bucket, bypassPacing)

\* pickKey(now, keys, region, bucket, priority): [index, at].
pickKey(ks, now_, region, bucket, priority) ==
    LET best == pickKeyFrom(ks, 0, -1, ZeroTime, now_, region, bucket,
                            priority = PriorityHigh)
    IN  IF best.index < 0 THEN [index |-> -1, at |-> now_ + Second] ELSE best

\* The keys after pickKey: nextAllowed has run on the app scope of the region
\* and the method scope of the bucket of every credential.
pickKeyKeys(ks, now_, region, bucket) ==
    [i \in DOMAIN ks |->
        [ks[i] EXCEPT !.app[region] = nextAllowedState(@, now_),
                      !.method[bucket] = nextAllowedState(@, now_)]]

\* req.resp <- v on the capacity-1 reply channel.
send(D, r, v) == [D EXCEPT !.resp[r] = Append(@, v)]

heapOf(D) == [buckets |-> D.buckets, wakeups |-> D.wakeups]
withHeap(D, H) == [D EXCEPT !.buckets = H.buckets, !.wakeups = H.wakeups]

\* dispatch's branch when consume fails on the app or the method scope.
dispatchRetry(D, b, req, priority, now_) ==
    LET D1 == withHeap(D, upsertWake(heapOf(D), b, now_ + RetryWake))
    IN  [D1 EXCEPT !.buckets[b] = putBack(@, req, priority), !.step.retried = TRUE]

RECURSIVE dispatchLoop(_, _, _, _, _)
\* The for-loop of dispatch on bucket b.  D holds the loop's state
\* [keys, buckets, wakeups, resp, history, step].
dispatchLoop(D, b, now_, cancelled, admission) ==
    LET dq == dequeueValid(D.buckets[b], cancelled)
        gone == (SeqToSet(D.buckets[b].high) \cup SeqToSet(D.buckets[b].normal))
                  \ (SeqToSet(dq.bq.high) \cup SeqToSet(dq.bq.normal) \cup {dq.req})
        D1 == [D EXCEPT !.buckets[b] = dq.bq, !.step.skipped = @ \cup gone]
        req == dq.req
    IN  IF req = NoReq THEN withHeap(D1, removeWake(heapOf(D1), b))
        ELSE
        LET priority == admission[req].Priority
            region == D1.buckets[b].region
            pk == pickKey(D1.keys, now_, region, b, priority)
            D2 == [D1 EXCEPT !.keys = pickKeyKeys(D1.keys, now_, region, b)]
        IN  IF pk.index < 0
            THEN dispatchLoop(send(D2, req, Rejected("no_available_key", Second)),
                              b, now_, cancelled, admission)
            ELSE IF pk.at > now_
            THEN withHeap([D2 EXCEPT !.buckets[b] = putBack(@, req, priority)],
                          upsertWake(heapOf([D2 EXCEPT !.buckets[b] = putBack(@, req, priority)]),
                                     b, pk.at))
            ELSE
            LET k == pk.index
                a == consume(D2.keys[k].app[region], now_)
                m == consume(D2.keys[k].method[b], now_)
                D3 == [D2 EXCEPT !.keys[k].app[region] = a.state]
                D4 == [D3 EXCEPT !.keys[k].method[b] = m.state]
            IN  IF ~a.ok THEN dispatchRetry(D3, b, req, priority, now_)
                ELSE IF ~m.ok THEN dispatchRetry(D4, b, req, priority, now_)
                ELSE dispatchLoop(
                        [send(D4, req, TicketReply(k)) EXCEPT
                            !.history = Append(@, [ev |-> "ticket", req |-> req]),
                            !.step.issued = Append(@,
                                [req |-> req, key |-> k, bucket |-> b, at |-> now_,
                                 app |-> D1.keys[k].app[region],
                                 method |-> D1.keys[k].method[b]])],
                        b, now_, cancelled, admission)

\* dispatch(bucket, keys, wakeups).
dispatch(D, b, now_, cancelled, admission) ==
    IF ~D.buckets[b].exists THEN D
    ELSE dispatchLoop([D EXCEPT !.step.dispatched = Append(@, b)],
                      b, now_, cancelled, admission)

\* A cancelled request answered as if the queue were full.
admitCancelledRejected(D, r) == send(D, r, Rejected("queue_full", Second))

\* handleAdmit on a request whose ctx.Err() is not nil: reply the ctx error.
admitCancelled(D, r) == send(D, r, CtxError)

\* The capacity test with > in place of >=.
queueFullStrict(bq, QueueCapacity) == depth(bq) > QueueCapacity

\* handleAdmit's capacity test.
queueFull(bq, QueueCapacity) == depth(bq) >= QueueCapacity

\* handleAdmit(req, keys, buckets, wakeups).
handleAdmit(D, r, now_, cancelled, admission, QueueCapacity) ==
    IF cancelled[r] THEN admitCancelled(D, r)
    ELSE
    LET b == admission[r].Bucket
        D1 == IF ~D.buckets[b].exists
              THEN [D EXCEPT !.buckets[b] =
                        [NilBucket EXCEPT !.exists = TRUE, !.region = admission[r].Region]]
              ELSE D
        bq == D1.buckets[b]
        pk == pickKey(D1.keys, now_, bq.region, b, admission[r].Priority)
    IN  IF queueFull(bq, QueueCapacity)
        THEN send([D1 EXCEPT !.keys = pickKeyKeys(D1.keys, now_, bq.region, b)],
                  r, Rejected("queue_full", Max2(pk.at - now_, Second)))
        ELSE dispatch([D1 EXCEPT !.buckets[b] = enqueue(@, r, admission[r].Priority),
                                 !.history = Append(@, [ev |-> "enq", req |-> r])],
                      b, now_, cancelled, admission)

RECURSIVE dispatchAll(_, _, _, _, _, _)
\* handleObservation's range over the buckets map, visited in order `order`.
dispatchAll(D, order, i, now_, cancelled, admission) ==
    IF i > Len(order) THEN D
    ELSE dispatchAll(dispatch(D, order[i], now_, cancelled, admission),
                     order, i + 1, now_, cancelled, admission)

\* A handler that applies the Retry-After of a 429 to both scopes.
handleObservationBothScopes(D, obs, now_, order, cancelled, admission, AdditionalWindow) ==
    IF obs.KeyIndex < 0 \/ obs.KeyIndex \notin DOMAIN D.keys THEN D
    ELSE IF obs.Region = "" \/ obs.Bucket = "" THEN D
    ELSE
    LET retryAfter == parseRetryAfter(obs.Header.RetryAfter, now_)
        applyMethodRetry == obs.StatusCode = StatusTooManyRequests
        applyAppRetry == obs.StatusCode = StatusTooManyRequests
        appLimits == parseRateHeader(obs.Header.AppLimit, obs.Header.AppCount)
        methodLimits == parseRateHeader(obs.Header.MethodLimit, obs.Header.MethodCount)
        k == obs.KeyIndex
        D1 == [D EXCEPT !.keys[k].app[obs.Region] =
                    apply(@, appLimits, retryAfter, applyAppRetry, now_, AdditionalWindow)]
        D2 == [D1 EXCEPT !.keys[k].method[obs.Bucket] =
                    apply(@, methodLimits, retryAfter, applyMethodRetry, now_, AdditionalWindow)]
    IN  dispatchAll(D2, order, 1, now_, cancelled, admission)

\* A handler without the test for an empty region or bucket.
handleObservationAnyRoute(D, obs, now_, order, cancelled, admission, AdditionalWindow) ==
    IF obs.KeyIndex < 0 \/ obs.KeyIndex \notin DOMAIN D.keys THEN D
    ELSE
    LET retryAfter == parseRetryAfter(obs.Header.RetryAfter, now_)
        limitType == toLowerTrim(obs.Header.LimitType)
        applyMethodRetry == obs.StatusCode = StatusTooManyRequests /\ limitType = "method"
        applyAppRetry == obs.StatusCode = StatusTooManyRequests /\ ~applyMethodRetry
        appLimits == parseRateHeader(obs.Header.AppLimit, obs.Header.AppCount)
        methodLimits == parseRateHeader(obs.Header.MethodLimit, obs.Header.MethodCount)
        k == obs.KeyIndex
        D1 == [D EXCEPT !.keys[k].app[obs.Region] =
                    apply(@, appLimits, retryAfter, applyAppRetry, now_, AdditionalWindow)]
        D2 == [D1 EXCEPT !.keys[k].method[obs.Bucket] =
                    apply(@, methodLimits, retryAfter, applyMethodRetry, now_, AdditionalWindow)]
    IN  dispatchAll(D2, order, 1, now_, cancelled, admission)

\* A handler that updates the rate states and leaves the queues to the timer.
handleObservationNoDispatch(D, obs, now_, order, cancelled, admission, AdditionalWindow) ==
    IF obs.KeyIndex < 0 \/ obs.KeyIndex \notin DOMAIN D.keys THEN D
    ELSE IF obs.Region = "" \/ obs.Bucket = "" THEN D
    ELSE
    LET retryAfter == parseRetryAfter(obs.Header.RetryAfter, now_)
        limitType == toLowerTrim(obs.Header.LimitType)
        applyMethodRetry == obs.StatusCode = StatusTooManyRequests /\ limitType = "method"
        applyAppRetry == obs.StatusCode = StatusTooManyRequests /\ ~applyMethodRetry
        appLimits == parseRateHeader(obs.Header.AppLimit, obs.Header.AppCount)
        methodLimits == parseRateHeader(obs.Header.MethodLimit, obs.Header.MethodCount)
        k == obs.KeyIndex
        D1 == [D EXCEPT !.keys[k].app[obs.Region] =
                    apply(@, appLimits, retryAfter, applyAppRetry, now_, AdditionalWindow)]
        D2 == [D1 EXCEPT !.keys[k].method[obs.Bucket] =
                    apply(@, methodLimits, retryAfter, applyMethodRetry, now_, AdditionalWindow)]
    IN  D2

\* handleObservation(obs, keys, buckets, wakeups).
handleObservation(D, obs, now_, order, cancelled, admission, AdditionalWindow) ==
    IF obs.KeyIndex < 0 \/ obs.KeyIndex \notin DOMAIN D.keys THEN D
    ELSE IF obs.Region = "" \/ obs.Bucket = "" THEN D
    ELSE
    LET retryAfter == parseRetryAfter(obs.Header.RetryAfter, now_)
        limitType == toLowerTrim(obs.Header.LimitType)
        applyMethodRetry == obs.StatusCode = StatusTooManyRequests /\ limitType = "method"
        applyAppRetry == obs.StatusCode = StatusTooManyRequests /\ ~applyMethodRetry
        appLimits == parseRateHeader(obs.Header.AppLimit, obs.Header.AppCount)
        methodLimits == parseRateHeader(obs.Header.MethodLimit, obs.Header.MethodCount)
        k == obs.KeyIndex
        D1 == [D EXCEPT !.keys[k].app[obs.Region] =
                    apply(@, appLimits, retryAfter, applyAppRetry, now_, AdditionalWindow)]
        D2 == [D1 EXCEPT !.keys[k].method[obs.Bucket] =
                    apply(@, methodLimits, retryAfter, applyMethodRetry, now_, AdditionalWindow)]
    IN  dispatchAll(D2, order, 1, now_, cancelled, admission)

RECURSIVE timerDrain(_, _, _, _)
\* The loop's timer case: pop and dispatch every bucket whose wakeAt is due.
timerDrain(D, now_, cancelled, admission) ==
    IF Len(D.wakeups) = 0 THEN D
    ELSE LET next == D.wakeups[1]
         IN  IF D.buckets[next].wakeAt > now_ THEN D
             ELSE timerDrain(dispatch(withHeap(D, heapPop(heapOf(D))),
                                      next, now_, cancelled, admission),
                             now_, cancelled, admission)

\* A drain that empties the queues of bucket b without replying.
closeDrainSilent(D, b, cancelled) ==
    [D EXCEPT !.buckets[b].high = << >>, !.buckets[b].normal = << >>]

RECURSIVE closeDrain(_, _, _)
\* The loop's close case on one bucket: every live request gets shutting_down
\* unless its reply channel is full (select with default).
closeDrain(D, b, cancelled) ==
    LET dq == dequeueValid(D.buckets[b], cancelled)
        D1 == [D EXCEPT !.buckets[b] = dq.bq]
    IN  IF dq.req = NoReq THEN D1
        ELSE closeDrain(IF Len(D1.resp[dq.req]) < 1
                        THEN send(D1, dq.req, Rejected("shutting_down", 0))
                        ELSE D1,
                        b, cancelled)

RECURSIVE closeAll(_, _, _, _)
closeAll(D, order, i, cancelled) ==
    IF i > Len(order) THEN D
    ELSE closeAll(closeDrain(D, order[i], cancelled), order, i + 1, cancelled)

\* All orders in which a range over the map can visit the buckets in S.
Orders(S) ==
    {f \in [1 .. Cardinality(S) -> S] : \A i, j \in 1 .. Cardinality(S) : f[i] = f[j] => i = j}

\* ------------------------------------------------------------- transitions
loopState(op) ==
    [keys |-> keys, buckets |-> buckets, wakeups |-> wakeups, resp |-> resp,
     history |-> history, step |-> [NoStep EXCEPT !.op = op]]

commit(D) ==
    /\ keys' = D.keys
    /\ buckets' = D.buckets
    /\ wakeups' = D.wakeups
    /\ resp' = D.resp
    /\ history' = D.history
    /\ step' = D.step

loopVars == <<keys, buckets, wakeups, history, step>>
callerVars == <<pc, adm, ctxErr, result>>

InitWith(config, c) ==
    /\ cfg = config
    /\ calls = c
    /\ now = 1
    /\ loopAlive = TRUE
    /\ keys = [k \in 0 .. (config.KeyCount - 1) |-> newKeyState]
    /\ buckets = [b \in Buckets |-> NilBucket]
    /\ wakeups = << >>
    /\ observeCh = 0
    /\ callCount = 0
    /\ pc = [r \in Requests |-> "idle"]
    /\ adm = [r \in Requests |-> [Region |-> "", Bucket |-> "", Priority |-> PriorityNormal]]
    /\ ctxErr = [r \in Requests |-> FALSE]
    /\ resp = [r \in Requests |-> << >>]
    /\ result = [r \in Requests |-> NoResult]
    /\ closePc = "idle"
    /\ history = << >>
    /\ step = NoStep
    /\ rs = EmptyRateState
    /\ rsOp = NoOp
    /\ http = [r \in Requests |-> NoReply]
    /\ hdr = NoParse
    /\ rt = NoRoundTrip
    /\ st = NoState

Init == InitWith(Config(1, 2, 0, ColdStartLimits), OneBucket)

\* The same limiter with QueueCapacity 1 (scenario S1).
InitQueueOne == InitWith(Config(1, 1, 0, ColdStartLimits), OneBucket)

\* The clock advances.
Tick ==
    /\ now < MaxTime
    /\ now' = now + 1
    /\ UNCHANGED <<loopAlive, observeCh, callCount, resp, closePc, loopVars, callerVars, cfg, calls, rs, rsOp, http, hdr, rt, st>>

\* Admit is called (calls are numbered in the order they start): an empty
\* region or bucket returns invalid_route at once, otherwise the call blocks
\* on the admit channel.
AdmitCall(r, a) ==
    /\ pc[r] = "idle"
    /\ \A q \in Requests : q < r => pc[q] # "idle"
    /\ callCount < MaxCalls
    /\ callCount' = callCount + 1
    /\ adm' = [adm EXCEPT ![r] = a]
    /\ IF a.Region = "" \/ a.Bucket = ""
       THEN /\ pc' = [pc EXCEPT ![r] = "done"]
            /\ result' = [result EXCEPT ![r] = Rejected("invalid_route", 0)]
       ELSE /\ pc' = [pc EXCEPT ![r] = "sending"]
            /\ UNCHANGED result
    /\ UNCHANGED <<now, loopAlive, observeCh, resp, closePc, ctxErr, loopVars, cfg, calls, rs, rsOp, http, hdr, rt, st>>

\* The caller's context is cancelled or times out.
Cancel(r) ==
    /\ pc[r] \in {"sending", "waiting"}
    /\ ~ctxErr[r]
    /\ callCount < MaxCalls
    /\ callCount' = callCount + 1
    /\ ctxErr' = [ctxErr EXCEPT ![r] = TRUE]
    /\ UNCHANGED <<now, loopAlive, observeCh, resp, closePc, pc, adm, result, loopVars, cfg, calls, rs, rsOp, http, hdr, rt, st>>

\* Admit returns ctx.Err(): <-ctx.Done() wins either select.
AdmitCtxDone(r) ==
    /\ pc[r] \in {"sending", "waiting"}
    /\ ctxErr[r]
    /\ pc' = [pc EXCEPT ![r] = "done"]
    /\ result' = [result EXCEPT ![r] = CtxError]
    /\ UNCHANGED <<now, loopAlive, observeCh, callCount, resp, closePc, adm, ctxErr, loopVars, cfg, calls, rs, rsOp, http, hdr, rt, st>>

\* Admit returns the reply read from req.resp.
AdmitReply(r) ==
    /\ pc[r] = "waiting"
    /\ resp[r] # << >>
    /\ pc' = [pc EXCEPT ![r] = "done"]
    /\ result' = [result EXCEPT ![r] = Head(resp[r])]
    /\ resp' = [resp EXCEPT ![r] = Tail(@)]
    /\ UNCHANGED <<now, loopAlive, observeCh, callCount, closePc, adm, ctxErr, loopVars, cfg, calls, rs, rsOp, http, hdr, rt, st>>

\* Observe: the observation is buffered when observeCh has room ...
\* (Observe's argument does not depend on the limiter's state: the content of
\* a buffered observation is drawn when the loop receives it.)
ObserveSend ==
    /\ callCount < MaxCalls
    /\ observeCh < ObserveChCap
    /\ observeCh' = observeCh + 1
    /\ callCount' = callCount + 1
    /\ UNCHANGED <<now, loopAlive, resp, closePc, loopVars, callerVars, cfg, calls, rs, rsOp, http, hdr, rt, st>>

\* An Observe that sends without a default case: with a full channel the call
\* cannot complete.
ObserveDropBlocking ==
    /\ FALSE
    /\ UNCHANGED vars

\* ... and dropped when it is full.
ObserveDrop ==
    /\ callCount < MaxCalls
    /\ ~(observeCh < ObserveChCap)
    /\ callCount' = callCount + 1
    /\ UNCHANGED <<now, loopAlive, observeCh, resp, closePc, loopVars, callerVars, cfg, calls, rs, rsOp, http, hdr, rt, st>>

\* Close is called and blocks on closeCh.
CloseCall ==
    /\ closePc = "idle"
    /\ callCount < MaxCalls
    /\ callCount' = callCount + 1
    /\ closePc' = "sending"
    /\ UNCHANGED <<now, loopAlive, observeCh, resp, loopVars, callerVars, cfg, calls, rs, rsOp, http, hdr, rt, st>>

\* Close returns once done is closed.
CloseReturn ==
    /\ closePc = "waiting"
    /\ ~loopAlive
    /\ closePc' = "returned"
    /\ UNCHANGED <<now, loopAlive, observeCh, callCount, resp, loopVars, callerVars, cfg, calls, rs, rsOp, http, hdr, rt, st>>

\* loop: case req := <-l.admitCh.
LoopAdmit(r) ==
    /\ loopAlive
    /\ pc[r] = "sending"
    /\ pc' = [pc EXCEPT ![r] = "waiting"]
    /\ commit(handleAdmit(loopState("admit"), r, now, ctxErr, adm, cfg.QueueCapacity))
    /\ UNCHANGED <<now, loopAlive, observeCh, callCount, closePc, adm, ctxErr, result, cfg, calls, rs, rsOp, http, hdr, rt, st>>

\* loop: case obs := <-l.observeCh.
LoopObserve ==
    /\ loopAlive
    /\ observeCh > 0
    /\ observeCh' = observeCh - 1
    /\ \E obs \in calls.observations :
       \E order \in Orders({b \in Buckets :
                              buckets[b].exists /\ buckets[b].region = obs.Region}) :
          commit(handleObservation([loopState("observe") EXCEPT !.step.obs = obs], obs, now, order,
                                   ctxErr, adm, cfg.AdditionalWindow))
    /\ UNCHANGED <<now, loopAlive, callCount, closePc, callerVars, cfg, calls, rs, rsOp, http, hdr, rt, st>>

\* loop: case <-timer.C, armed for wakeups[0].wakeAt.
LoopTimer ==
    /\ loopAlive
    /\ Len(wakeups) > 0
    /\ buckets[wakeups[1]].wakeAt <= now
    /\ commit(timerDrain(loopState("timer"), now, ctxErr, adm))
    /\ UNCHANGED <<now, loopAlive, observeCh, callCount, closePc, callerVars, cfg, calls, rs, rsOp, http, hdr, rt, st>>

\* A close case that drains and acknowledges but does not return.
LoopCloseKeepsRunning ==
    /\ loopAlive
    /\ closePc = "sending"
    /\ closePc' = "waiting"
    /\ \E order \in Orders({b \in Buckets : buckets[b].exists}) :
          commit(closeAll(loopState("close"), order, 1, ctxErr))
    /\ UNCHANGED <<now, loopAlive, observeCh, callCount, callerVars, cfg, calls, rs, rsOp, http, hdr, rt, st>>

\* loop: case done := <-l.closeCh; drain, close(done), return.
LoopClose ==
    /\ loopAlive
    /\ closePc = "sending"
    /\ closePc' = "waiting"
    /\ loopAlive' = FALSE
    /\ \E order \in Orders({b \in Buckets : buckets[b].exists}) :
          commit(closeAll(loopState("close"), order, 1, ctxErr))
    /\ UNCHANGED <<now, observeCh, callCount, callerVars, cfg, calls, rs, rsOp, http, hdr, rt, st>>

Next ==
    \/ Tick
    \/ \E r \in Requests, a \in calls.admissions : AdmitCall(r, a)
    \/ \E r \in Requests : Cancel(r)
    \/ \E r \in Requests : AdmitCtxDone(r)
    \/ \E r \in Requests : AdmitReply(r)
    \/ ObserveSend
    \/ ObserveDrop
    \/ CloseCall
    \/ CloseReturn
    \/ \E r \in Requests : LoopAdmit(r)
    \/ LoopObserve
    \/ LoopTimer
    \/ LoopClose

Spec == Init /\ [][Next]_vars

SpecQueueOne == InitQueueOne /\ [][Next]_vars

\* The clock keeps advancing while the loop has a wake-up ahead of it: past
\* MaxTime time passes only up to the next pending wake.
TickToWake ==
    /\ \/ now < MaxTime
       \/ /\ loopAlive
          /\ Len(wakeups) > 0
          /\ buckets[wakeups[1]].wakeAt > now
    /\ now' = now + 1
    /\ UNCHANGED <<loopAlive, observeCh, callCount, resp, closePc, loopVars, callerVars, cfg, calls, rs, rsOp, http, hdr, rt, st>>

\* The limiter with an advancing clock and at most MaxLiveCalls calls.
LiveBudget == callCount < MaxLiveCalls
NextLive ==
    \/ TickToWake
    \/ LiveBudget /\ \E r \in Requests, a \in calls.admissions : AdmitCall(r, a)
    \/ LiveBudget /\ \E r \in Requests : Cancel(r)
    \/ \E r \in Requests : AdmitCtxDone(r)
    \/ \E r \in Requests : AdmitReply(r)
    \/ LiveBudget /\ ObserveSend
    \/ LiveBudget /\ ObserveDrop
    \/ LiveBudget /\ CloseCall
    \/ CloseReturn
    \/ \E r \in Requests : LoopAdmit(r)
    \/ LoopObserve
    \/ LoopTimer
    \/ LoopClose

\* The guard of LoopTimer: the timer armed for wakeups[0] has expired.  The
\* rest of LoopTimer assigns the next state, so this is ENABLED LoopTimer.
TimerDue ==
    /\ loopAlive
    /\ Len(wakeups) > 0
    /\ buckets[wakeups[1]].wakeAt <= now

\* The clock advances and the loop goroutine is scheduled: weak fairness of
\* TickToWake and of LoopTimer, the latter written with its guard (an expired
\* timer that stays expired is eventually served).
FairLoop ==
    /\ WF_vars(TickToWake)
    /\ []<>(~TimerDue) \/ []<><<LoopTimer>>_vars

SpecLive == Init /\ [][NextLive]_vars /\ FairLoop

\* A limiter with two credentials receiving the observations of ObserveCases.
InitObserve == InitWith(Config(2, 2, 0, ColdStartLimits), ObserveCases)

SpecObserve == InitObserve /\ [][Next]_vars

\* The KeyCount values a caller may hand to New.
KeyCounts == {0, 1, 2}

\* A New that builds the limiter whatever the configuration says.
NewUnchecked(config) == TRUE

\* New(cfg) returns a limiter (and no error).
New(config) == ~(config.KeyCount <= 0) /\ ~(config.QueueCapacity <= 0)

\* The limiters New builds for the observation scenario with 0, 1 or 2
\* credentials asked for.
InitKeys ==
    \E keyCount \in KeyCounts :
        /\ New(Config(keyCount, 2, 0, ColdStartLimits))
        /\ InitWith(Config(keyCount, 2, 0, ColdStartLimits), ObserveCases)

SpecKeys == InitKeys /\ [][Next]_vars

\* A limiter with one credential serving two regions (RegionCases).
InitRegions == InitWith(Config(1, 2, 0, ColdStartLimits), RegionCases)

SpecRegions == InitRegions /\ [][Next]_vars

\* A limiter with one credential serving two buckets of a region (BucketCases).
InitBuckets == InitWith(Config(1, 2, 0, ColdStartLimits), BucketCases)

SpecBuckets == InitBuckets /\ [][Next]_vars

\* A limiter with one credential receiving the observations of IgnoredCases.
InitIgnored == InitWith(Config(1, 2, 0, ColdStartLimits), IgnoredCases)

SpecIgnored == InitIgnored /\ [][Next]_vars

\* --------------------------------------------- the rate state on its own
\* One rateState, starting as rateState{}, driven by arbitrary nextAllowed,
\* consume and apply calls at a clock that only moves forward (the loop is its
\* only caller), at most MaxRateCalls calls in all.  The limiter's own variables
\* stay as New leaves them.
mainVars_noHdr == <<loopAlive, keys, buckets, wakeups, observeCh,
                    pc, adm, ctxErr, resp, result, closePc, cfg, calls, history, step, http, rt, st>>
mainVars == <<mainVars_noHdr, hdr>>
\* Everything but the clock and the ratelimit.State.
stFrame == <<loopAlive, keys, buckets, wakeups, observeCh, callCount, pc, adm, ctxErr,
             resp, result, closePc, cfg, calls, history, step, rs, rsOp, http, hdr, rt>>
\* Everything but the retry transport's RoundTrip.
limiterVars == <<now, loopAlive, keys, buckets, wakeups, observeCh, callCount, pc, adm, ctxErr,
                 resp, result, closePc, cfg, calls, history, step, rs, rsOp, http, hdr, st>>

\* The parsed window lists apply is given: empty, one window of one second
\* (limit 1..2, count 0..2), or that window followed by one of two seconds
\* (limit 2, count 0 or 2).
ShortWindows == [limit : 1 .. 2, count : 0 .. 2, window : {Second}]
LongWindows == [limit : {2}, count : {0, 2}, window : {2 * Second}]
ParsedLists ==
    {<< >>} \cup {<<w>> : w \in ShortWindows}
            \cup {<<v, w>> : v \in ShortWindows, w \in LongWindows}

\* The (retryAfter, applyRetry) arguments of apply.
RetryArgs(t) == {<<Nil, FALSE>>, <<t + Second, TRUE>>, <<t + Second, FALSE>>}

RateTick ==
    /\ now < MaxTime
    /\ now' = now + 1
    /\ UNCHANGED <<rs, rsOp, callCount, mainVars>>

RateNextAllowed(bypassPacing) ==
    /\ callCount < MaxRateCalls
    /\ callCount' = callCount + 1
    /\ rs' = nextAllowedState(rs, now)
    /\ rsOp' = [name |-> "nextAllowed", pre |-> rs, at |-> now, ok |-> FALSE,
                ret |-> nextAllowed(rs, now, bypassPacing), bypass |-> bypassPacing]
    /\ UNCHANGED <<now, mainVars>>

RateConsume ==
    /\ callCount < MaxRateCalls
    /\ callCount' = callCount + 1
    /\ rs' = consume(rs, now).state
    /\ rsOp' = [name |-> "consume", pre |-> rs, at |-> now, ok |-> consume(rs, now).ok,
                ret |-> 0, bypass |-> FALSE]
    /\ UNCHANGED <<now, mainVars>>

RateApply(windows, retryAfter, applyRetry) ==
    /\ callCount < MaxRateCalls
    /\ callCount' = callCount + 1
    /\ rs' = apply(rs, windows, retryAfter, applyRetry, now, cfg.AdditionalWindow)
    /\ rsOp' = [name |-> "apply", pre |-> rs, at |-> now, ok |-> applyRetry,
                ret |-> retryAfter, bypass |-> FALSE]
    /\ UNCHANGED <<now, mainVars>>

NextRate ==
    \/ RateTick
    \/ \E bypassPacing \in BOOLEAN : RateNextAllowed(bypassPacing)
    \/ RateConsume
    \/ \E windows \in ParsedLists, retry \in RetryArgs(now) :
          RateApply(windows, retry[1], retry[2])

\* Config.AdditionalWindow is 0 or one tick.
AdditionalWindows == {0, 1}

InitRate ==
    \E additionalWindow \in AdditionalWindows :
        InitWith(Config(1, 2, additionalWindow, ColdStartLimits), OneBucket)

SpecRate == InitRate /\ [][NextRate]_vars

\* ------------------------------------------------- header parsing on its own
\* parseRateHeader applied to limit and count headers of up to MaxEntries
\* comma-separated entries: well-formed pairs, pairs with a non-positive or
\* negative number, entries with a non-numeric part, entries without a colon
\* and empty entries.
Junk(kind, a, b) == [kind |-> kind, a |-> a, b |-> b]
LimitEntries ==
    {Pair(2, 1), Pair(1, 2), Pair(0, 1), Pair(2, -1),
     Junk("intjunk", 2, 0), Junk("junkint", 0, 1), Junk("nocolon", 0, 0),
     Junk("empty", 0, 0)}
CountEntries ==
    {Pair(1, 1), Pair(-1, 1), Junk("intjunk", 2, 0), Junk("nocolon", 0, 0),
     Junk("empty", 0, 0)}
SeqsUpTo(S, n) == UNION {[1 .. k -> S] : k \in 0 .. n}
LimitHeaders == SeqsUpTo(LimitEntries, MaxEntries)
CountHeaders == SeqsUpTo(CountEntries, MaxEntries)

\* One call of parseRateHeader.
ParseRate(limitHeader, countHeader) ==
    /\ ~hdr.parsed
    /\ hdr' = [limit |-> limitHeader, count |-> countHeader,
               out |-> parseRateHeader(limitHeader, countHeader), parsed |-> TRUE]
    /\ UNCHANGED <<now, callCount, rs, rsOp, mainVars_noHdr>>

NextParse ==
    \E limitHeader \in LimitHeaders, countHeader \in CountHeaders :
        ParseRate(limitHeader, countHeader)

SpecParse == Init /\ [][NextParse]_vars

\* ------------------------------------- the rate state fed by header pairs
\* One rateState that is charged by consume and updated by the rate-limit
\* header pair of observations, as handleObservation does for one scope:
\* parseRateHeader, then apply.
ScopeLimitHeaders ==
    {NoHeader, <<Junk("nocolon", 0, 0)>>, <<Pair(0, 1)>>,
     <<Junk("empty", 0, 0), Pair(2, 1)>>, <<Pair(2, 1)>>, <<Pair(1, 1), Pair(2, 2)>>,
     <<Junk("junkint", 0, 1), Pair(2, 2)>>}
ScopeCountHeaders ==
    {NoHeader, <<Pair(1, 1)>>, <<Pair(0, 1), Pair(2, 2)>>, <<Junk("nocolon", 0, 0)>>}

RateObserve(limitHeader, countHeader) ==
    /\ callCount < MaxRateCalls
    /\ callCount' = callCount + 1
    /\ hdr' = [limit |-> limitHeader, count |-> countHeader,
               out |-> parseRateHeader(limitHeader, countHeader), parsed |-> TRUE]
    /\ rs' = apply(rs, parseRateHeader(limitHeader, countHeader), Nil, FALSE, now,
                   cfg.AdditionalWindow)
    /\ rsOp' = [name |-> "observe", pre |-> rs, at |-> now, ok |-> FALSE,
                ret |-> Nil, bypass |-> FALSE]
    /\ UNCHANGED <<now, mainVars_noHdr>>

\* consume on the same rate state, leaving the header record alone.
RateCharge ==
    /\ callCount < MaxRateCalls
    /\ callCount' = callCount + 1
    /\ rs' = consume(rs, now).state
    /\ rsOp' = [name |-> "consume", pre |-> rs, at |-> now, ok |-> consume(rs, now).ok,
                ret |-> 0, bypass |-> FALSE]
    /\ UNCHANGED <<now, mainVars>>

NextRateHeaders ==
    \/ RateTick
    \/ RateCharge
    \/ \E limitHeader \in ScopeLimitHeaders, countHeader \in ScopeCountHeaders :
          RateObserve(limitHeader, countHeader)

SpecRateHeaders == InitRate /\ [][NextRateHeaders]_vars

\* ------------------------------------------------------- the proxy adapter
\* admissionMiddleware on its own: each client request gets one outcome of
\* Admit and the adapter answers or forwards it.  Durations of this part are
\* in milliseconds.
\* time.Second.
SecondMs == 1000

\* int(d.Round(time.Second).Seconds()) for d >= 0: Round goes to the nearest
\* multiple of a second, halfway values away from zero.
roundSeconds(d) == (d + SecondMs \div 2) \div SecondMs

\* What Admit returns to the adapter.  The router hands over a non-empty
\* region and bucket, so the errors are queue_full (RetryAfter of at least one
\* second), no_available_key (one second), shutting_down (no RetryAfter) and
\* the context's error.
QueueFullRetryAfters == {1000, 1200, 1500, 2000, 2600}
AdmitOutcomes ==
    {TicketReply(0), CtxError,
     Rejected("shutting_down", 0), Rejected("no_available_key", SecondMs)}
    \cup {Rejected("queue_full", d) : d \in QueueFullRetryAfters}

\* admissionMiddleware from the return of Admit on: the answer to an error,
\* or the call of next.ServeHTTP.
admissionMiddleware(out) ==
    IF out.kind # "ticket"
    THEN LET retryAfter == IF out.kind = "rejected" /\ out.retryAfter > 0
                           THEN out.retryAfter ELSE SecondMs
         IN  [status |-> StatusTooManyRequests,
              retryAfter |-> roundSeconds(retryAfter),
              forwarded |-> FALSE]
    ELSE [status |-> 0, retryAfter |-> -1, forwarded |-> TRUE]

\* The adapter serves request r, whose Admit call returns out.
ProxyServe(r, out) ==
    /\ pc[r] = "idle"
    /\ \A q \in Requests : q < r => pc[q] # "idle"
    /\ pc' = [pc EXCEPT ![r] = "done"]
    /\ result' = [result EXCEPT ![r] = out]
    /\ http' = [http EXCEPT ![r] = admissionMiddleware(out)]
    /\ UNCHANGED <<now, loopAlive, keys, buckets, wakeups, observeCh, callCount,
                   adm, ctxErr, resp, closePc, cfg, calls, history, step, rs, rsOp, hdr, rt, st>>

NextProxy == \E r \in Requests, out \in AdmitOutcomes : ProxyServe(r, out)

SpecProxy == Init /\ [][NextProxy]_vars

\* --------------------------------------------------- the retry-on-429 transport
\* One RoundTrip of the transport that NewRetryTransport / WithRetryAfter429
\* wrap around a base transport. Durations are in milliseconds. A Retry-After
\* value is absent, a bare number of seconds, a Go duration ("500ms"), an HTTP
\* date n ms after (n > 0) or before the moment it is parsed, or junk.

RetryAfterValues ==
    {[kind |-> "absent", n |-> 0], [kind |-> "seconds", n |-> 0], [kind |-> "seconds", n |-> 1],
     [kind |-> "seconds", n |-> -1], [kind |-> "duration", n |-> 500],
     [kind |-> "date", n |-> 2000], [kind |-> "date", n |-> -1000], [kind |-> "junk", n |-> 0]}

\* What base.RoundTrip gives back: an error, or a response.
UpstreamOutcomes ==
    {[kind |-> "error", status |-> 0, retryAfter |-> [kind |-> "absent", n |-> 0]],
     [kind |-> "response", status |-> StatusOK, retryAfter |-> [kind |-> "absent", n |-> 0]]}
    \cup {[kind |-> "response", status |-> StatusTooManyRequests, retryAfter |-> v] :
             v \in RetryAfterValues}

\* The request body: nil, http.NoBody without GetBody, a body with GetBody,
\* a body without GetBody.
RequestBodies == {"none", "nobody", "replayable", "oneshot"}

\* parseRetryAfter of package transport: a delay, 0 when nothing parses.
transportParseRetryAfter(v) ==
    CASE v.kind = "duration" -> v.n
      [] v.kind = "seconds" -> v.n * SecondMs
      [] v.kind = "date" -> IF v.n > 0 THEN v.n ELSE 0
      [] OTHER -> 0

\* parseRetryAfterHeader of transport.go: (waitFor, ok).
parseRetryAfterHeader(v) ==
    CASE v.kind = "seconds" ->
             IF v.n < 0 THEN [waitFor |-> 0, ok |-> FALSE]
             ELSE [waitFor |-> v.n * SecondMs, ok |-> TRUE]
      [] v.kind = "date" -> [waitFor |-> IF v.n < 0 THEN 0 ELSE v.n, ok |-> TRUE]
      [] OTHER -> [waitFor |-> 0, ok |-> FALSE]

canReplayRequestBody(body) == body \in {"none", "nobody", "replayable"}

\* attempt > maxRetries: one retry more than configured.
retryExhaustedLate(attempt, maxRetries) == attempt > maxRetries

\* attempt >= maxRetries.
retryExhausted(attempt, maxRetries) == attempt >= maxRetries

\* RoundTrip returns (resp, err).
Returned(t, response, err) == [t EXCEPT !.pc = "done", !.resp = response, !.err = err]

\* retryTransport.RoundTrip from one base.RoundTrip up to its return, its
\* select or the next loop round; with maxRetries <= 0 NewRetryTransport
\* hands out the base transport itself.
roundTripStep(t, out, getBodyFails) ==
    LET c == [t EXCEPT !.calls = @ + 1, !.last = out]
        delay == transportParseRetryAfter(out.retryAfter)
    IN  IF out.kind = "error" THEN Returned(c, NoResponse, "transport")
        ELSE IF t.maxRetries <= 0 THEN Returned(c, out.status, "none")
        ELSE IF out.status # StatusTooManyRequests THEN Returned(c, out.status, "none")
        ELSE IF retryExhausted(t.attempt, t.maxRetries) THEN Returned(c, out.status, "none")
        ELSE IF t.body \in {"nobody", "oneshot"} THEN Returned(c, out.status, "none")
        ELSE IF t.body = "replayable" /\ getBodyFails THEN Returned(c, NoResponse, "body")
        ELSE IF delay > 0 THEN [c EXCEPT !.pc = "wait", !.delay = delay]
        ELSE [c EXCEPT !.attempt = @ + 1]

\* The round of WithRetryAfter429's loop for t.attempt, the same way.
withRetryAfter429Step(t, out, getBodyFails) ==
    LET c == [t EXCEPT !.calls = @ + 1, !.last = out]
        parsed == parseRetryAfterHeader(out.retryAfter)
    IN  IF t.maxRetries <= 0
        THEN IF out.kind = "error" THEN Returned(c, NoResponse, "transport")
             ELSE Returned(c, out.status, "none")
        ELSE IF t.attempt > 0 /\ t.body = "replayable" /\ getBodyFails
        THEN Returned(t, NoResponse, "body")
        ELSE IF out.kind = "error" THEN Returned(c, NoResponse, "transport")
        ELSE IF \/ out.status # StatusTooManyRequests
                \/ retryExhausted(t.attempt, t.maxRetries)
                \/ ~canReplayRequestBody(t.body)
        THEN Returned(c, out.status, "none")
        ELSE IF ~parsed.ok THEN Returned(c, out.status, "none")
        ELSE IF parsed.waitFor <= 0 THEN [c EXCEPT !.attempt = @ + 1]
        ELSE [c EXCEPT !.pc = "wait", !.delay = parsed.waitFor]

\* The proxy builds the transport and a request enters RoundTrip.
RoundTripStart(impl, maxRetries, body) ==
    /\ rt.pc = "idle"
    /\ rt' = [NoRoundTrip EXCEPT !.impl = impl, !.maxRetries = maxRetries, !.body = body,
                                 !.pc = "attempt"]
    /\ UNCHANGED limiterVars

RoundTripAttempt(out, getBodyFails) ==
    /\ rt.pc = "attempt"
    /\ rt.impl = "retryTransport"
    /\ rt' = roundTripStep(rt, out, getBodyFails)
    /\ UNCHANGED limiterVars

WithRetryAfter429Attempt(out, getBodyFails) ==
    /\ rt.pc = "attempt"
    /\ rt.impl = "WithRetryAfter429"
    /\ rt' = withRetryAfter429Step(rt, out, getBodyFails)
    /\ UNCHANGED limiterVars

\* The select of both transports: the context is done, or the timer fires.
RoundTripWait ==
    /\ rt.pc = "wait"
    /\ rt' = IF rt.ctxDone THEN Returned(rt, NoResponse, "ctx")
             ELSE [rt EXCEPT !.pc = "attempt", !.attempt = @ + 1, !.delay = 0]
    /\ UNCHANGED limiterVars

\* The request's context is cancelled while RoundTrip runs.
RoundTripCancel ==
    /\ rt.pc \in {"attempt", "wait"}
    /\ ~rt.ctxDone
    /\ rt' = [rt EXCEPT !.ctxDone = TRUE]
    /\ UNCHANGED limiterVars

NextRetry ==
    \/ \E impl \in {"retryTransport", "WithRetryAfter429"}, maxRetries \in 0 .. MaxRetriesBound,
          body \in RequestBodies : RoundTripStart(impl, maxRetries, body)
    \/ \E out \in UpstreamOutcomes, getBodyFails \in BOOLEAN :
          RoundTripAttempt(out, getBodyFails)
    \/ \E out \in UpstreamOutcomes, getBodyFails \in BOOLEAN :
          WithRetryAfter429Attempt(out, getBodyFails)
    \/ RoundTripWait
    \/ RoundTripCancel

SpecRetry == Init /\ [][NextRetry]_vars

\* ------------------------------------------------------- ratelimit.State
\* st.buckets[i] = [Limit, Window, entries, nextID] with entries a sequence
\* of [at, id]; st.reserved[k] is what the k-th Reserve returned and what its
\* cancel closure holds: [when, priority, prevLast, id, canceled].
DefaultBuckets ==
    {<<[Limit |-> 1, Window |-> Second]>>,
     <<[Limit |-> 2, Window |-> Second]>>,
     <<[Limit |-> 1, Window |-> Second], [Limit |-> 2, Window |-> 2 * Second]>>}

\* Bucket.prune: keeps the entries after now - Window.
bucketPrune(b, t) ==
    [b EXCEPT !.entries = SelectSeq(b.entries, LAMBDA e : e.at > t - b.Window)]

\* Bucket.remaining on a pruned bucket: (remaining, untilReset).
bucketRemaining(b, t) ==
    [remaining |-> Max2(b.Limit - Len(b.entries), 0),
     untilReset |-> IF Len(b.entries) = 0 THEN b.Window
                    ELSE Max2(b.entries[1].at + b.Window - t, 0)]

\* Bucket.nextAvailable on a pruned bucket.
bucketNextAvailable(b, t) ==
    IF b.Limit = 0 \/ Len(b.entries) < b.Limit THEN t
    ELSE b.entries[1].at + b.Window

\* The spacing Reserve derives from one bucket.
bucketSpacing(b, t) ==
    LET r == bucketRemaining(b, t)
        baseSpacing == b.Window \div b.Limit
    IN  IF b.Limit <= 0 THEN 0
        ELSE IF r.remaining > 0 /\ r.untilReset > 0
        THEN Max2(r.untilReset \div r.remaining, baseSpacing)
        ELSE baseSpacing

\* The time Reserve returns, on pruned buckets bs.
reserveNext(bs, lastNormal, t, priority) ==
    LET usedAny == \E i \in DOMAIN bs : Len(bs[i].entries) > 0
        maxSpacing == SetMax({0} \cup {bucketSpacing(bs[i], t) : i \in DOMAIN bs})
        hard == SetMax({t} \cup {bucketNextAvailable(bs[i], t) : i \in DOMAIN bs})
        spacingBase == IF lastNormal = ZeroTime /\ usedAny THEN t ELSE lastNormal
    IN  IF ~priority /\ spacingBase # ZeroTime
        THEN Max2(hard, spacingBase + maxSpacing)
        ELSE hard

\* NewState(defaultBuckets).
NewState(defaultBuckets) ==
    /\ ~st.built
    /\ st' = [built |-> TRUE,
              buckets |-> [i \in DOMAIN defaultBuckets |->
                             [Limit |-> defaultBuckets[i].Limit,
                              Window |-> defaultBuckets[i].Window,
                              entries |-> << >>, nextID |-> 0]],
              lastNormal |-> ZeroTime, reserved |-> << >>]
    /\ UNCHANGED <<now, stFrame>>

\* State.Reserve(now, priority).
Reserve(priority) ==
    /\ st.built
    /\ Len(st.reserved) < MaxReserves
    /\ LET bs == [i \in DOMAIN st.buckets |-> bucketPrune(st.buckets[i], now)]
           next == reserveNext(bs, st.lastNormal, now, priority)
       IN  st' = [st EXCEPT
                    !.buckets = [i \in DOMAIN bs |->
                                   [bs[i] EXCEPT !.entries = Append(@, [at |-> next,
                                                                        id |-> bs[i].nextID]),
                                                 !.nextID = @ + 1]],
                    !.lastNormal = IF priority THEN @ ELSE next,
                    !.reserved = Append(@, [when |-> next, priority |-> priority,
                                            prevLast |-> st.lastNormal,
                                            id |-> Len(st.reserved), canceled |-> FALSE])]
    /\ UNCHANGED <<now, stFrame>>

\* The cancel closure of the k-th reservation.
ReserveCancel(k) ==
    /\ st.built
    /\ k \in DOMAIN st.reserved
    /\ ~st.reserved[k].canceled
    /\ LET g == st.reserved[k]
       IN  st' = [st EXCEPT
                    !.buckets = [i \in DOMAIN st.buckets |->
                                   [st.buckets[i] EXCEPT
                                      !.entries = SelectSeq(@, LAMBDA e : e.id # g.id)]],
                    !.lastNormal = IF ~g.priority /\ st.lastNormal = g.when
                                   THEN g.prevLast ELSE @,
                    !.reserved[k].canceled = TRUE]
    /\ UNCHANGED <<now, stFrame>>

\* Time passes between the calls.
ReserveTick ==
    /\ st.built
    /\ now < MaxTime
    /\ now' = now + 1
    /\ UNCHANGED <<st, stFrame>>

NextReserve ==
    \/ \E defaultBuckets \in DefaultBuckets : NewState(defaultBuckets)
    \/ \E priority \in BOOLEAN : Reserve(priority)
    \/ \E k \in 1 .. MaxReserves : ReserveCancel(k)
    \/ ReserveTick

SpecReserve == Init /\ [][NextReserve]_vars

\* ================================================================ claims
\* Position of event [ev, r] in history, 0 when it has not happened.
EventAt(ev, r) ==
    IF \E i \in DOMAIN history : history[i] = [ev |-> ev, req |-> r]
    THEN CHOOSE i \in DOMAIN history : history[i] = [ev |-> ev, req |-> r]
    ELSE 0
Enqueued(r) == EventAt("enq", r) > 0
Ticketed(r) == EventAt("ticket", r) > 0
TicketedIn(h, r) == \E i \in DOMAIN h : h[i] = [ev |-> "ticket", req |-> r]
QueuedIn(bq) == SeqToSet(bq.high) \cup SeqToSet(bq.normal)
Scopes(k) == {keys[k].app[r] : r \in Regions} \cup {keys[k].method[b] : b \in Buckets}

\* A scope admits at time t: it is not blocked and no window that is still
\* running at t is full (a window whose resetAt has passed restarts empty).
WithinHardLimits(s, t) ==
    /\ s.blockedUntil <= t
    /\ \A i \in DOMAIN s.windows :
          s.windows[i].resetAt > t => s.windows[i].used < s.windows[i].limit

\* C1: every ticket the latest loop iteration issued, to a normal or a high
\* priority request, was issued at a time when neither the app scope nor the
\* method scope of the chosen credential was blocked and every running window
\* of both had used < limit just before the slot was consumed; the reply on
\* the request's channel names that credential, and the charge leaves every
\* window of both scopes with 1 <= used <= limit.
C1_TicketWithinHardLimits ==
    \A i \in DOMAIN step.issued :
        LET e == step.issued[i]
        IN  /\ e.key \in DOMAIN keys
            /\ resp[e.req] \in {<<TicketReply(e.key)>>, << >>}
            /\ WithinHardLimits(e.app, e.at)
            /\ WithinHardLimits(e.method, e.at)
            /\ \A s \in {keys[e.key].app[adm[e.req].Region], keys[e.key].method[e.bucket]} :
                  \A j \in DOMAIN s.windows :
                      1 <= s.windows[j].used /\ s.windows[j].used <= s.windows[j].limit

\* C1 witness: a high priority ticket issued on a scope that has a running
\* window with budget left.
C1_Witness ==
    \E i \in DOMAIN step.issued :
        /\ adm[step.issued[i].req].Priority = PriorityHigh
        /\ step.issued[i].method.windows # << >>
        /\ step.issued[i].method.windows[1].resetAt > step.issued[i].at
        /\ step.issued[i].method.windows[1].used = 1

\* C2: in every reachable state every window of every scope has
\* 0 <= used <= limit.
C2_UsedWithinLimit ==
    \A k \in DOMAIN keys : \A s \in Scopes(k) : \A i \in DOMAIN s.windows :
        0 <= s.windows[i].used /\ s.windows[i].used <= s.windows[i].limit

\* C3: (a) if a high priority request H was enqueued while a normal request N
\* of the same bucket was queued without a ticket, and H's context is not
\* cancelled, then N has no ticket unless H got one earlier; (b) a step that
\* issues a ticket to a normal request leaves no live request in the high
\* queue of its bucket.
C3_HighBeforeQueuedNormal ==
    \A n, h \in Requests :
        ( /\ Enqueued(n) /\ Enqueued(h)
          /\ adm[n].Bucket = adm[h].Bucket
          /\ adm[n].Priority = PriorityNormal /\ adm[h].Priority = PriorityHigh
          /\ EventAt("enq", n) < EventAt("enq", h)
          /\ ~(Ticketed(n) /\ EventAt("ticket", n) < EventAt("enq", h))
          /\ ~ctxErr[h]
          /\ Ticketed(n) )
        => (Ticketed(h) /\ EventAt("ticket", h) < EventAt("ticket", n))

C3_NormalOnlyAfterHighQueue ==
    \A n \in Requests :
        ( /\ adm[n].Priority = PriorityNormal
          /\ TicketedIn(history', n) /\ ~TicketedIn(history, n) )
        => \A h \in SeqToSet(buckets'[adm[n].Bucket].high) : ctxErr[h]

C3_HighPreemptsNormal ==
    [](C3_HighBeforeQueuedNormal) /\ [][C3_NormalOnlyAfterHighQueue]_vars

\* C3 witness: H was enqueued after N, while N was queued, and both have
\* their tickets, H's first.
C3_Witness ==
    \E n, h \in Requests :
        /\ adm[n].Priority = PriorityNormal /\ adm[h].Priority = PriorityHigh
        /\ adm[n].Bucket = adm[h].Bucket
        /\ Ticketed(n) /\ Ticketed(h)
        /\ EventAt("enq", n) < EventAt("enq", h)
        /\ EventAt("enq", h) < EventAt("ticket", h)
        /\ EventAt("ticket", h) < EventAt("ticket", n)

\* Each class queue of each bucket holds its requests in the order the loop
\* enqueued them.
QueueInArrivalOrder(q) ==
    \A i, j \in DOMAIN q : i < j => EventAt("enq", q[i]) < EventAt("enq", q[j])

\* C4: within one priority class of one bucket, a request enqueued later has
\* no ticket unless every request enqueued earlier whose context is not
\* cancelled got its ticket before; the class queues stay in arrival order
\* (a deferred request goes back to the head).
C4_FifoWithinClass ==
    /\ \A a, b \in Requests :
          ( /\ Enqueued(a) /\ Enqueued(b)
            /\ adm[a].Bucket = adm[b].Bucket /\ adm[a].Priority = adm[b].Priority
            /\ EventAt("enq", a) < EventAt("enq", b)
            /\ ~ctxErr[a]
            /\ Ticketed(b) )
          => (Ticketed(a) /\ EventAt("ticket", a) < EventAt("ticket", b))
    /\ \A b \in Buckets :
          QueueInArrivalOrder(buckets[b].high) /\ QueueInArrivalOrder(buckets[b].normal)

\* C4 witness: two normal requests were queued together (the first had been
\* deferred and put back) and got their tickets in arrival order.
C4_Witness ==
    \E a, b \in Requests :
        /\ a # b
        /\ adm[a].Priority = PriorityNormal /\ adm[b].Priority = PriorityNormal
        /\ adm[a].Bucket = adm[b].Bucket
        /\ EventAt("enq", a) < EventAt("enq", b)
        /\ EventAt("enq", b) < EventAt("ticket", a)
        /\ EventAt("ticket", a) < EventAt("ticket", b)

\* The loop receives request r in this step.
Received(r) == pc[r] = "sending" /\ pc'[r] = "waiting"

\* C5: when the loop receives a live request for a bucket whose depth is
\* >= QueueCapacity it replies queue_full with RetryAfter = max(1 s, earliest
\* ready time - now), does not enqueue and leaves the queues as they were;
\* when depth < QueueCapacity it does not reply queue_full.
C5_QueueFullStep ==
    \A r \in Requests :
        (Received(r) /\ ~ctxErr[r]) =>
            LET b == adm[r].Bucket
                region == IF buckets[b].exists THEN buckets[b].region ELSE adm[r].Region
                earliest == pickKey(keys, now, region, b, adm[r].Priority).at
            IN  IF depth(buckets[b]) >= cfg.QueueCapacity
                THEN /\ resp'[r] = <<Rejected("queue_full", Max2(earliest - now, Second))>>
                     /\ buckets'[b].high = buckets[b].high
                     /\ buckets'[b].normal = buckets[b].normal
                     /\ history' = history
                ELSE /\ \A i \in DOMAIN resp'[r] : resp'[r][i].reason # "queue_full"
                     /\ TicketedIn(history', r) \/ r \in QueuedIn(buckets'[b])

C5_QueueFull == [][C5_QueueFullStep]_vars

\* C5 witness: a request was answered queue_full while the bucket holds
\* QueueCapacity requests.
C5_Witness ==
    \E r \in Requests :
        /\ resp[r] # << >>
        /\ resp[r][1].reason = "queue_full"
        /\ depth(buckets[adm[r].Bucket]) = cfg.QueueCapacity

\* Number of Observe calls made so far (every call counts once in callCount).
ObserveCalls ==
    callCount - Cardinality({r \in Requests : pc[r] # "idle"})
              - Cardinality({r \in Requests : ctxErr[r]})
              - (IF closePc # "idle" THEN 1 ELSE 0)

\* C6: with DefaultAppLimits configured and no observation sent, no more
\* than `limit` normal admits per credential get a ticket before the first
\* default window (which cannot start before the limiter does) resets: with
\* 3 per second the fourth normal admit waits for the reset.
C6_ColdStartLimited ==
    (cfg.DefaultAppLimits # << >> /\ ObserveCalls = 0) =>
        \A i \in DOMAIN cfg.DefaultAppLimits :
            LET d == cfg.DefaultAppLimits[i]
            IN  now < 1 + d.b * Second =>
                    Cardinality({r \in Requests :
                                    Ticketed(r) /\ adm[r].Priority = PriorityNormal})
                        <= d.a * Cardinality(DOMAIN keys)

\* C7: the step in which the loop handles Close posts shutting_down to every
\* queued request whose context is not cancelled, empties the queues and
\* issues no ticket; once the loop has stopped nothing is posted and no rate
\* state changes; Close has returned only if the loop has stopped.
C7_CloseStep ==
    /\ (loopAlive /\ ~loopAlive') =>
          /\ \A b \in Buckets : \A r \in QueuedIn(buckets[b]) :
                IF ctxErr[r] THEN resp'[r] = << >>
                ELSE resp'[r] = <<Rejected("shutting_down", 0)>>
          /\ \A b \in Buckets : depth(buckets'[b]) = 0
          /\ history' = history
          /\ keys' = keys
    /\ ~loopAlive =>
          /\ ~loopAlive'
          /\ history' = history /\ keys' = keys /\ buckets' = buckets
          /\ \A r \in Requests : Len(resp'[r]) <= Len(resp[r])
    /\ closePc' = "returned" => ~loopAlive'

C7_CloseDrains == [][C7_CloseStep]_vars

\* C7 witness: Close has returned and a caller that was queued got
\* shutting_down.
C7_Witness ==
    /\ closePc = "returned"
    /\ \E r \in Requests :
          Enqueued(r) /\ ~Ticketed(r) /\ result[r] = Rejected("shutting_down", 0)

\* The first request dispatch has to consider in bucket queue bq: the first
\* live one of the high queue, else of the normal queue, else none.
FirstLive(bq) ==
    LET h == SelectSeq(bq.high, LAMBDA x : ~ctxErr[x])
        n == SelectSeq(bq.normal, LAMBDA x : ~ctxErr[x])
    IN  IF h # << >> THEN Head(h) ELSE IF n # << >> THEN Head(n) ELSE NoReq

\* Tickets the step just taken charged to credential k on bucket b.
IssuedOn(k, b) ==
    Cardinality({i \in DOMAIN step'.issued :
                    step'.issued[i].key = k /\ step'.issued[i].bucket = b})

\* Scope s2 is scope s after n grants at time t and nothing else: every
\* window's used is n above its old value (or above 0 if it had expired).
ChargedOnly(s, s2, n, t) ==
    /\ n = 0 => s2.lastGranted = s.lastGranted
    /\ Len(s2.windows) = Len(s.windows)
    /\ \A i \in DOMAIN s.windows :
          \/ s2.windows[i].used = s.windows[i].used + n
          \/ s.windows[i].resetAt <= t /\ s2.windows[i].used = n

\* C8: a step of the running loop in which a queued request r whose context
\* is cancelled leaves its queue is a dispatch that dropped r: it posts
\* nothing to r and issues it no ticket; the rate states are
\* charged for the tickets of the step only (lastGranted and used do not move
\* on account of r); and the first live request of the bucket is considered
\* in the same step: it gets its ticket or a rejection, or is put back at the
\* head of its queue with a wake-up scheduled.
C8_SkipStep ==
    \A r \in Requests : \A b \in Buckets :
        ( /\ adm[r].Bucket = b /\ ctxErr[r] /\ loopAlive'
          /\ r \in QueuedIn(buckets[b]) /\ r \notin QueuedIn(buckets'[b]) ) =>
            /\ r \in step'.skipped
            /\ resp'[r] = << >>
            /\ ~TicketedIn(history', r)
            /\ step'.op # "observe" =>
                  \A k \in DOMAIN keys :
                      /\ ChargedOnly(keys[k].method[b], keys'[k].method[b], IssuedOn(k, b), now)
                      /\ ChargedOnly(keys[k].app[buckets[b].region],
                                     keys'[k].app[buckets[b].region], IssuedOn(k, b), now)
            /\ LET nxt == FirstLive(buckets[b])
               IN  nxt # NoReq =>
                      \/ TicketedIn(history', nxt)
                      \/ resp'[nxt] # << >>
                      \/ /\ nxt = FirstLive(buckets'[b])
                         /\ buckets'[b].heapIndex >= 0
                         /\ buckets'[b].wakeAt > now

C8_CancelledSkipped == [][C8_SkipStep]_vars

\* C8 witness: one dispatch dropped a cancelled request and issued a ticket
\* to the request behind it.
C8_Witness ==
    /\ step.skipped # {}
    /\ Len(step.issued) > 0
    /\ \E r \in step.skipped :
          Enqueued(r) /\ EventAt("enq", r) < EventAt("enq", step.issued[1].req)

\* C9: (a) when the loop receives a request whose context is cancelled it
\* posts the context's error and does not enqueue it; (b) the loop posts no
\* rejection to a request whose context is cancelled; (c) an Admit call that
\* ends without taking a reply ends on its cancelled context and returns the
\* context's error.
C9_CancelStep ==
    \A r \in Requests :
        /\ (Received(r) /\ ctxErr[r]) =>
              /\ resp'[r] = <<CtxError>>
              /\ history' = history
              /\ \A b \in Buckets : r \notin QueuedIn(buckets'[b])
        /\ (ctxErr[r] /\ Len(resp'[r]) > Len(resp[r])) =>
              resp'[r][Len(resp'[r])] = CtxError
        /\ (pc[r] \in {"sending", "waiting"} /\ pc'[r] = "done" /\ resp'[r] = resp[r]) =>
              ctxErr[r] /\ result'[r] = CtxError

C9_CancelReturnsCtxError == [][C9_CancelStep]_vars

\* C9 witness (scenario S1, QueueCapacity 1): A is queued behind a method
\* block and ends with its context's error, B was answered queue_full.
C9_Witness ==
    \E a, b \in Requests :
        /\ cfg.QueueCapacity = 1
        /\ Enqueued(a) /\ ~Ticketed(a)
        /\ result[a] = CtxError
        /\ result[b] = Rejected("queue_full", Second)
        /\ keys[0].method[adm[a].Bucket].blockedUntil > now

\* C10 as stated: after consume(now) returned true every window's used is one
\* above its value before the call and lastGranted = now.
C10_UsedOneHigher ==
    (rsOp.name = "consume" /\ rsOp.ok) =>
        /\ rs.lastGranted = rsOp.at
        /\ Len(rs.windows) = Len(rsOp.pre.windows)
        /\ \A i \in DOMAIN rs.windows : rs.windows[i].used = rsOp.pre.windows[i].used + 1

\* C10 amended: after consume(now) returned true, a window whose resetAt was
\* after now has used one above its value before the call, a window whose
\* resetAt had passed has used = 1 and resetAt = now + window; limits,
\* durations and blockedUntil are unchanged and lastGranted = now.
C10_UsedOneAboveRefreshed ==
    (rsOp.name = "consume" /\ rsOp.ok) =>
        /\ rs.lastGranted = rsOp.at
        /\ rs.blockedUntil = rsOp.pre.blockedUntil
        /\ Len(rs.windows) = Len(rsOp.pre.windows)
        /\ \A i \in DOMAIN rs.windows :
              LET w == rsOp.pre.windows[i]
              IN  rs.windows[i] =
                    IF w.resetAt > rsOp.at
                    THEN [w EXCEPT !.used = w.used + 1]
                    ELSE [w EXCEPT !.used = 1, !.resetAt = rsOp.at + w.window]

\* C10 witness: consume returned true on a state that held a window with
\* used > 0 whose resetAt had passed, next to one that was still running.
C10_Witness ==
    /\ rsOp.name = "consume" /\ rsOp.ok
    /\ \E i, j \in DOMAIN rsOp.pre.windows :
          /\ rsOp.pre.windows[i].resetAt <= rsOp.at /\ rsOp.pre.windows[i].used > 0
          /\ rsOp.pre.windows[j].resetAt > rsOp.at

\* Window w as a visit at time t leaves it: restarted if its resetAt has passed.
RefreshedAt(w, t) ==
    IF w.resetAt > t THEN w ELSE [w EXCEPT !.used = 0, !.resetAt = t + w.window]

\* C11 as stated: after consume(now) returned false the rate state is what it
\* was before the call.
C11_DeniedUnchanged ==
    (rsOp.name = "consume" /\ ~rsOp.ok) => rs = rsOp.pre

\* C11 amended: after consume(now) returned false, lastGranted and
\* blockedUntil are unchanged and no used has grown; a denial by blockedUntil
\* leaves the state as it was; a denial by a full window f leaves the windows
\* after f as they were and the windows up to f as a visit at now leaves them
\* (restarted with used = 0 and resetAt = now + window if their resetAt had
\* passed, unchanged otherwise).
C11_DeniedOnlyRefreshes ==
    (rsOp.name = "consume" /\ ~rsOp.ok) =>
        LET pre == rsOp.pre
            t == rsOp.at
        IN  /\ rs.lastGranted = pre.lastGranted
            /\ rs.blockedUntil = pre.blockedUntil
            /\ Len(rs.windows) = Len(pre.windows)
            /\ \A i \in DOMAIN pre.windows : rs.windows[i].used <= pre.windows[i].used
            /\ IF pre.blockedUntil > t THEN rs = pre
               ELSE \E f \in DOMAIN pre.windows :
                      /\ RefreshedAt(pre.windows[f], t).used >= pre.windows[f].limit
                      /\ \A i \in DOMAIN pre.windows :
                            /\ i < f => RefreshedAt(pre.windows[i], t).used < pre.windows[i].limit
                            /\ i <= f => rs.windows[i] = RefreshedAt(pre.windows[i], t)
                            /\ i > f => rs.windows[i] = pre.windows[i]

\* C11 witness: consume was denied by a full second window after it had
\* restarted an expired first window that had used > 0.
C11_Witness ==
    /\ rsOp.name = "consume" /\ ~rsOp.ok
    /\ rsOp.pre.blockedUntil <= rsOp.at
    /\ Len(rsOp.pre.windows) = 2
    /\ rsOp.pre.windows[1].resetAt <= rsOp.at /\ rsOp.pre.windows[1].used > 0
    /\ rs.windows[1].used = 0
    /\ rs.windows[2].used >= rs.windows[2].limit

\* The instant the hard limits of scope s allow a request at time t: t
\* itself, raised to blockedUntil and to the resetAt of every window that is
\* still running at t and full.
HardReadyAt(s, t) ==
    SetMax({t, s.blockedUntil} \cup
           {s.windows[i].resetAt : i \in {j \in DOMAIN s.windows :
                /\ s.windows[j].resetAt > t
                /\ s.windows[j].used >= s.windows[j].limit}})

\* C12: in every reachable rate state nextAllowed(now, true) <=
\* nextAllowed(now, false); a call with bypassPacing returned exactly the
\* instant the hard limits allow (now, blockedUntil or a full window's
\* resetAt) and a paced call returned no earlier than that.
C12_BypassNeverLater ==
    /\ nextAllowed(rs, now, TRUE) <= nextAllowed(rs, now, FALSE)
    /\ nextAllowed(rs, now, TRUE) = HardReadyAt(rs, now)
    /\ rsOp.name = "nextAllowed" =>
          IF rsOp.bypass THEN rsOp.ret = HardReadyAt(rsOp.pre, rsOp.at)
          ELSE rsOp.ret >= HardReadyAt(rsOp.pre, rsOp.at)

\* C12 witness: a paced call returned a later instant than the bypassing call
\* would have, on a state whose hard limits already delay the request.
C12_Witness ==
    /\ rsOp.name = "nextAllowed" /\ ~rsOp.bypass
    /\ rsOp.ret > nextAllowed(rsOp.pre, rsOp.at, TRUE)
    /\ nextAllowed(rsOp.pre, rsOp.at, TRUE) > rsOp.at

\* The windows of list ws with duration d that are still running at time t.
ActiveOf(ws, d, t) == {i \in DOMAIN ws : ws[i].window = d /\ ws[i].resetAt > t}

\* C13: apply at time now of any non-empty parsed list gives, for each parsed
\* window, a window of duration window + additionalWindow whose resetAt is
\* that of the existing window of the same duration if that one is still
\* running (resetAt > now), and now + window + additionalWindow if it has
\* expired or no such window exists; the apply call last made has left every
\* window anchored that way.
C13_AnchorPreserved ==
    /\ \A windows \in ParsedLists \ {<< >>} :
          LET r == apply(rs, windows, Nil, FALSE, now, cfg.AdditionalWindow)
          IN  /\ Len(r.windows) = Len(windows)
              /\ \A j \in DOMAIN windows :
                    LET d == windows[j].window + cfg.AdditionalWindow
                        act == ActiveOf(rs.windows, d, now)
                    IN  /\ r.windows[j].window = d
                        /\ r.windows[j].resetAt =
                              IF act # {} THEN rs.windows[SetMax(act)].resetAt ELSE now + d
    /\ (rsOp.name = "apply" /\ rs.windows # rsOp.pre.windows) =>
          \A j \in DOMAIN rs.windows :
              LET d == rs.windows[j].window
                  act == ActiveOf(rsOp.pre.windows, d, rsOp.at)
              IN  rs.windows[j].resetAt =
                      IF act # {} THEN rsOp.pre.windows[SetMax(act)].resetAt
                      ELSE rsOp.at + d

\* C13 witness: an apply call changed a window that was running and kept its
\* resetAt, which is earlier than a fresh anchor would be, next to a window
\* it anchored at now + window + additionalWindow.
C13_Witness ==
    /\ rsOp.name = "apply" /\ rs.windows # rsOp.pre.windows
    /\ cfg.AdditionalWindow > 0
    /\ \E j, k \in DOMAIN rs.windows :
          /\ ActiveOf(rsOp.pre.windows, rs.windows[j].window, rsOp.at) # {}
          /\ rs.windows[j].resetAt < rsOp.at + rs.windows[j].window
          /\ ActiveOf(rsOp.pre.windows, rs.windows[k].window, rsOp.at) = {}
          /\ rs.windows[k].resetAt = rsOp.at + rs.windows[k].window

\* C14: apply at time now of any non-empty parsed list gives a window whose
\* predecessor of the same duration is still running used = max(old used,
\* min(count, limit)), never less than the old used, and gives any other
\* window used = min(count, limit); the apply call last made has lowered the
\* used of no window that was running.
C14_UsedNotLowered ==
    /\ \A windows \in ParsedLists \ {<< >>} :
          LET r == apply(rs, windows, Nil, FALSE, now, cfg.AdditionalWindow)
          IN  \A j \in DOMAIN windows :
                  LET d == windows[j].window + cfg.AdditionalWindow
                      act == ActiveOf(rs.windows, d, now)
                      reported == IF windows[j].count < windows[j].limit
                                  THEN windows[j].count ELSE windows[j].limit
                  IN  IF act # {}
                      THEN /\ r.windows[j].used >= rs.windows[SetMax(act)].used
                           /\ r.windows[j].used \in {rs.windows[SetMax(act)].used, reported}
                           /\ r.windows[j].used >= reported
                      ELSE r.windows[j].used = reported
    /\ rsOp.name = "apply" =>
          \A j \in DOMAIN rs.windows :
              LET act == ActiveOf(rsOp.pre.windows, rs.windows[j].window, rsOp.at)
              IN  act # {} => rs.windows[j].used >= rsOp.pre.windows[SetMax(act)].used

\* C14 witness: an apply call gave a running window with used 2 a limit of 1
\* (so a reported count of at most 1) and its used is still 2.
C14_Witness ==
    /\ rsOp.name = "apply"
    /\ \E j \in DOMAIN rs.windows :
          LET act == ActiveOf(rsOp.pre.windows, rs.windows[j].window, rsOp.at)
          IN  /\ act # {}
              /\ rsOp.pre.windows[SetMax(act)].used = 2
              /\ rs.windows[j].limit = 1
              /\ rs.windows[j].used = 2

\* ---------------------------------------------------------------------------
\* The loop receives an observation in this step (it is step'.obs); the
\* observation passes handleObservation's KeyIndex, region and bucket tests.
ObserveReceived == observeCh' = observeCh - 1
RoutedToMethod(obs) == toLowerTrim(obs.Header.LimitType) = "method"
Accepted(obs) ==
    /\ obs.KeyIndex \in DOMAIN keys
    /\ obs.Region # "" /\ obs.Bucket # ""

\* blockedUntil of one scope moves from old to new in a step: it never goes
\* back, and it moves only to the Retry-After instant of a handled 429
\* observation routed to the scope (routed) that is later than old.
BlockedMove(old, new, routed) ==
    /\ new >= old
    /\ (new # old) =>
          /\ ObserveReceived
          /\ Accepted(step'.obs)
          /\ step'.obs.StatusCode = StatusTooManyRequests
          /\ routed
          /\ parseRetryAfter(step'.obs.Header.RetryAfter, now) # Nil
          /\ parseRetryAfter(step'.obs.Header.RetryAfter, now) > old
          /\ new = parseRetryAfter(step'.obs.Header.RetryAfter, now)

\* C15: across any sequence of observations and admissions, blockedUntil of
\* every scope never decreases; it changes only when a 429 observation routed
\* to that scope carries a Retry-After that parses to an instant later than
\* the current blockedUntil, and then it becomes exactly that instant.
C15_BlockedStep ==
    \A k \in DOMAIN keys :
        /\ \A r \in Regions :
              BlockedMove(keys[k].app[r].blockedUntil, keys'[k].app[r].blockedUntil,
                          /\ step'.obs.KeyIndex = k
                          /\ step'.obs.Region = r
                          /\ ~RoutedToMethod(step'.obs))
        /\ \A b \in Buckets :
              BlockedMove(keys[k].method[b].blockedUntil, keys'[k].method[b].blockedUntil,
                          /\ step'.obs.KeyIndex = k
                          /\ step'.obs.Bucket = b
                          /\ RoutedToMethod(step'.obs))

C15_BlockedUntilMonotone == [][C15_BlockedStep]_vars

\* A method scope already blocked until instant 4 has just seen a 429 whose
\* Retry-After names the earlier instant 3 (kept at 4), after an earlier move.
C15_Witness ==
    /\ step.op = "observe"
    /\ step.obs = Observation("na1", "na1:a", 0, StatusTooManyRequests, MethodRetryDate)
    /\ keys[0].method["na1:a"].blockedUntil = 4
    /\ keys[0].app["na1"].blockedUntil = 3

\* ---------------------------------------------------------------------------
\* The X-Rate-Limit-Type values in use that equal "method" when case is ignored.
MethodSpellings == {"method", "Method", "METHOD"}

\* blockedUntil after a Retry-After that parsed to t (Nil: none) was applied.
RetryApplied(old, t) == IF t # Nil /\ t > old THEN t ELSE old

\* C16: on an observation with status 429 the Retry-After is applied to
\* exactly one scope of the observed credential: the method scope of the
\* observation's bucket when X-Rate-Limit-Type equals "method" whatever its
\* case, otherwise the app scope of the observation's region; with any other
\* status no blockedUntil changes, whatever Retry-After says.
C16_RouteStep ==
    (ObserveReceived /\ Accepted(step'.obs)) =>
        LET o == step'.obs
            t == parseRetryAfter(o.Header.RetryAfter, now)
            limited == o.StatusCode = StatusTooManyRequests
            toMethod == limited /\ o.Header.LimitType \in MethodSpellings
            toApp == limited /\ o.Header.LimitType \notin MethodSpellings
        IN  \A k \in DOMAIN keys :
                /\ \A r \in Regions :
                      keys'[k].app[r].blockedUntil =
                          IF k = o.KeyIndex /\ r = o.Region /\ toApp
                          THEN RetryApplied(keys[k].app[r].blockedUntil, t)
                          ELSE keys[k].app[r].blockedUntil
                /\ \A b \in Buckets :
                      keys'[k].method[b].blockedUntil =
                          IF k = o.KeyIndex /\ b = o.Bucket /\ toMethod
                          THEN RetryApplied(keys[k].method[b].blockedUntil, t)
                          ELSE keys[k].method[b].blockedUntil

C16_RetryRoutedToOneScope == [][C16_RouteStep]_vars

\* A 429 with X-Rate-Limit-Type "METHOD" has blocked the method scope of its
\* bucket until instant 3 and left the app scope and the other credential alone.
C16_Witness ==
    /\ step.op = "observe"
    /\ step.obs = Observation("na1", "na1:a", 0, StatusTooManyRequests, MethodRetryDate)
    /\ keys[0].method["na1:a"].blockedUntil = 3
    /\ keys[0].app["na1"].blockedUntil = ZeroTime
    /\ keys[0].method["na1:b"].blockedUntil = ZeroTime
    /\ keys[1].app["na1"].blockedUntil = ZeroTime

\* ---------------------------------------------------------------------------
\* A call of Observe runs to its return in one step.
ObserveCall == ObserveSend \/ ObserveDrop

\* An Observe call is made in this step: with a full channel nothing but the
\* call count changes, otherwise the channel holds one observation more; the
\* loop's state is not touched either way.
C17_ObserveStep ==
    (ObserveCalls' = ObserveCalls + 1) =>
        /\ observeCh' = IF observeCh < ObserveChCap THEN observeCh + 1 ELSE observeCh
        /\ UNCHANGED <<now, loopAlive, keys, buckets, wakeups, resp, history, step>>

\* C17: Observe never blocks its caller: it can always run to its return,
\* whether the channel is full or the loop alive or not; with a full channel
\* the observation is discarded and leaves the limiter state as it is,
\* otherwise it is buffered, and a buffered observation can be received by the
\* running loop.
C17_ObserveNeverBlocks ==
    /\ []((callCount < MaxCalls) => ENABLED ObserveCall)
    /\ []((loopAlive /\ observeCh > 0) => ENABLED LoopObserve)
    /\ [][C17_ObserveStep]_vars

\* Two Observe calls and nothing else have been made; the loop has not run:
\* the channel holds one observation and the other was discarded.
C17_Witness ==
    /\ ObserveCalls = 2
    /\ callCount = 2
    /\ observeCh = ObserveChCap
    /\ step = NoStep
    /\ keys = [k \in DOMAIN keys |-> newKeyState]

\* ---------------------------------------------------------------------------
\* C18: an observation whose KeyIndex is outside [0, KeyCount) or whose region
\* or bucket is empty is ignored by the loop: no rate state, queue or
\* wake-heap entry changes, nobody is answered and no bucket is dispatched
\* because of it.
C18_IgnoredStep ==
    (ObserveReceived /\ ~Accepted(step'.obs)) =>
        /\ UNCHANGED <<keys, buckets, wakeups, resp, history>>
        /\ step'.dispatched = << >>
        /\ step'.issued = << >>
        /\ step'.skipped = {}

C18_InvalidObservationIgnored == [][C18_IgnoredStep]_vars

\* The loop has just received an observation with an empty bucket while a
\* request waits in a bucket of the observation's region whose wake-up time
\* has come (the Retry-After block is over): the request is still queued.
C18_Witness ==
    /\ step.op = "observe"
    /\ step.obs = Observation("na1", "", 0, StatusTooManyRequests, AppRetry)
    /\ buckets["na1:a"].normal # << >>
    /\ buckets["na1:a"].wakeAt # ZeroTime
    /\ buckets["na1:a"].wakeAt <= now
    /\ keys[0].method["na1:a"].blockedUntil <= now
    /\ keys[0].app["na1"].blockedUntil = ZeroTime

\* ---------------------------------------------------------------------------
\* The HTTP status the adapter owes a rejection with the given reason.
StatusForReason(reason) ==
    CASE reason \in {"queue_full", "no_available_key"} -> StatusTooManyRequests
      [] reason = "invalid_route" -> 400
      [] reason = "shutting_down" -> 503
      [] OTHER -> 0

\* C19: the proxy adapter maps an Admit failure to an HTTP status by its
\* rejection reason: queue_full and no_available_key give 429, invalid_route
\* gives 400 and shutting_down gives 503; the request is never forwarded
\* upstream after a failed Admit.
C19_StatusByReason ==
    \A r \in Requests :
        /\ (pc[r] = "done" /\ result[r].kind = "rejected") =>
              http[r].status = StatusForReason(result[r].reason)
        /\ (pc[r] = "done" /\ result[r].kind # "ticket") => ~http[r].forwarded

\* ---------------------------------------------------------------------------
\* ceil(d in seconds) for a duration d >= 0 in milliseconds.
ceilSeconds(d) == (d + SecondMs - 1) \div SecondMs

\* C20: for a rejection answered with 429, the Retry-After header equals
\* ceil(RetryAfter in seconds) for every positive RetryAfter, so the
\* advertised delay is never shorter than the limiter's RetryAfter.
C20_RetryAfterCeil ==
    \A r \in Requests :
        (/\ pc[r] = "done"
         /\ result[r].kind = "rejected"
         /\ result[r].retryAfter > 0
         /\ http[r].status = StatusTooManyRequests) =>
            /\ http[r].retryAfter = ceilSeconds(result[r].retryAfter)
            /\ http[r].retryAfter * SecondMs >= result[r].retryAfter

\* ---------------------------------------------------------------------------
\* A limit entry "limit:windowSeconds" of two positive integers.
ValidLimit(e) == e.kind = "pair" /\ e.a > 0 /\ e.b > 0

\* The count the header pair gives for the limit entry at position i: the
\* first part of the count entry at position i when that is a non-negative
\* integer followed by a colon, otherwise 0.
CountAt(countHeader, i) ==
    IF /\ i <= Len(countHeader)
       /\ countHeader[i].kind \in {"pair", "intjunk"}
       /\ countHeader[i].a >= 0
    THEN countHeader[i].a ELSE 0

\* Positions of the valid limit entries, in order.
ValidPositions(limitHeader) ==
    SelectSeq([i \in 1 .. Len(limitHeader) |-> i], LAMBDA i : ValidLimit(limitHeader[i]))

\* C21 as stated: parseRateHeader returns an empty result whenever the first
\* entry of the limit header is not a valid limit:windowSeconds pair of
\* positive integers, whatever follows; and each returned window pairs the
\* limit entry at a position with the count entry at the same position.
C21_MalformedPrefixEmpty ==
    hdr.parsed =>
        /\ (hdr.limit # << >> /\ ~ValidLimit(hdr.limit[1])) => hdr.out = << >>
        /\ \A j \in DOMAIN hdr.out :
              \E i \in DOMAIN hdr.limit :
                  /\ hdr.out[j].limit = hdr.limit[i].a
                  /\ hdr.out[j].window = hdr.limit[i].b * Second
                  /\ hdr.out[j].count = CountAt(hdr.count, i)

\* C21 amended: an empty limit header, or one whose first entry is empty,
\* gives an empty result whatever follows; otherwise every entry that is not
\* a pair of positive integers is skipped and the result has one window per
\* valid entry, in order, each with the count entry of the same position.
C21_InvalidEntriesSkipped ==
    hdr.parsed =>
        IF hdr.limit = << >> \/ hdr.limit[1].kind = "empty"
        THEN hdr.out = << >>
        ELSE LET at == ValidPositions(hdr.limit)
             IN  hdr.out = [j \in 1 .. Len(at) |->
                               [limit |-> hdr.limit[at[j]].a,
                                count |-> CountAt(hdr.count, at[j]),
                                window |-> hdr.limit[at[j]].b * Second]]

\* "broken,2:1" with counts "1:1,2:x": the window of the second entry is
\* returned with the count of the second position.
C21_Witness ==
    /\ hdr.parsed
    /\ hdr.limit = <<Junk("nocolon", 0, 0), Pair(2, 1)>>
    /\ hdr.count = <<Pair(1, 1), Junk("intjunk", 2, 0)>>
    /\ hdr.out = <<[limit |-> 2, count |-> 2, window |-> Second]>>

\* ---------------------------------------------------------------------------
\* Readiness of credential k for a request of the given priority at the
\* current instant: the later of the app and method nextAllowed, both with
\* pacing bypassed exactly for high priority.
Readiness(k, region, bucket, priority) ==
    Max2(nextAllowed(keys[k].app[region], now, priority = PriorityHigh),
         nextAllowed(keys[k].method[bucket], now, priority = PriorityHigh))

\* C22: pickKey returns, among all credentials 0..KeyCount-1, an index whose
\* readiness max(appReadyAt, methodReadyAt) is minimal, together with that
\* time, and the lowest index among those of minimal readiness; pacing is
\* bypassed in both nextAllowed computations exactly for high priority.  A
\* ticket carries the index pickKey returned.
C22_PickState ==
    \A region \in Regions, bucket \in Buckets, priority \in {PriorityNormal, PriorityHigh} :
        LET pk == pickKey(keys, now, region, bucket, priority)
        IN  /\ pk.index \in DOMAIN keys
            /\ pk.at = Readiness(pk.index, region, bucket, priority)
            /\ \A k \in DOMAIN keys :
                  /\ Readiness(k, region, bucket, priority) >= pk.at
                  /\ Readiness(k, region, bucket, priority) = pk.at => k >= pk.index

\* The loop receives an Admit request and issues tickets: the first ticket is
\* for the lowest credential of minimal readiness, which is ready.
C22_TicketStep ==
    \A r \in Requests :
        (Received(r) /\ step'.issued # << >>) =>
            LET t == step'.issued[1]
                region == adm[t.req].Region
                priority == adm[t.req].Priority
            IN  /\ Readiness(t.key, region, t.bucket, priority) <= now
                /\ \A k \in DOMAIN keys :
                      /\ Readiness(k, region, t.bucket, priority)
                            >= Readiness(t.key, region, t.bucket, priority)
                      /\ Readiness(k, region, t.bucket, priority)
                            = Readiness(t.key, region, t.bucket, priority) => k >= t.key

C22_EarliestLowestKey == []C22_PickState /\ [][C22_TicketStep]_vars

\* Credential 0 is blocked on bucket na1:a by a Retry-After and a request of
\* that bucket has just been issued a ticket for credential 1.
C22_Witness ==
    /\ keys[0].method["na1:a"].blockedUntil > now
    /\ keys[1].method["na1:a"].blockedUntil <= now
    /\ pickKey(keys, now, "na1", "na1:a", PriorityNormal).index = 1
    /\ \E j \in DOMAIN step.issued :
          step.issued[j].key = 1 /\ step.issued[j].bucket = "na1:a" /\ step.issued[j].at = now

\* ---------------------------------------------------------------------------
\* C23: when the loop applies an observation for region R, every bucket of
\* region R is dispatched again in the same loop step: a bucket of R that
\* still holds requests afterwards wakes at the ready time of its head
\* computed from the updated windows and blocks, which lies in the future, so
\* a wake time computed before a stricter observation releases nobody; the
\* buckets of other regions are not dispatched.
C23_RedispatchStep ==
    (ObserveReceived /\ Accepted(step'.obs)) =>
        \A b \in Buckets :
            IF buckets[b].exists /\ buckets[b].region = step'.obs.Region
            THEN /\ \E i \in DOMAIN step'.dispatched : step'.dispatched[i] = b
                 /\ depth(buckets'[b]) > 0 =>
                       LET head == IF buckets'[b].high # << >>
                                   THEN Head(buckets'[b].high) ELSE Head(buckets'[b].normal)
                           ready == pickKey(keys', now, buckets'[b].region, b,
                                            adm[head].Priority).at
                       IN  /\ buckets'[b].wakeAt = ready
                           /\ ready > now
                 /\ depth(buckets'[b]) = 0 => buckets'[b].wakeAt = ZeroTime
            ELSE /\ \A i \in DOMAIN step'.dispatched : step'.dispatched[i] # b
                 /\ buckets'[b] = buckets[b]

WakeDue(b) == buckets[b].wakeAt # ZeroTime /\ buckets[b].wakeAt <= now

\* C24: a queued normal-priority request is re-evaluated as time passes: at
\* the first instant t at which its credential's paced ready time
\* nextAllowed(t, false) is <= t the loop serves its bucket and issues the
\* ticket, which can be earlier than the ready time computed when it was
\* queued (limit 2 per second, one request admitted at the start of the
\* window: the second is admitted before the window resets).
C24_QueuedServedWhenReady ==
    \A b \in Buckets :
        (/\ loopAlive
         /\ buckets[b].exists
         /\ buckets[b].high = << >>
         /\ buckets[b].normal # << >>
         /\ ~ctxErr[Head(buckets[b].normal)]
         /\ pickKey(keys, now, buckets[b].region, b, PriorityNormal).at <= now)
            => WakeDue(b)

\* ---------------------------------------------------------------------------
\* Bucket b holds a waiting head request: a live request queued with a wake time.
HeadOf(b) ==
    IF buckets[b].high # << >> THEN Head(buckets[b].high) ELSE Head(buckets[b].normal)
HeadWaiting(b) ==
    /\ buckets[b].exists
    /\ depth(buckets[b]) > 0
    /\ buckets[b].wakeAt # ZeroTime
    /\ ~ctxErr[HeadOf(b)]

\* C25: across buckets the loop serves the earliest-ready bucket first: when
\* the heads of buckets A and B are both waiting and A's wake time is earlier
\* than B's, B's head is not issued a ticket before A has been dispatched,
\* whatever event (timer, Admit, Observe) the loop handles.
C25_EarliestStep ==
    \A a, b \in Buckets :
        (/\ HeadWaiting(a) /\ HeadWaiting(b)
         /\ buckets[a].wakeAt < buckets[b].wakeAt
         /\ ~TicketedIn(history, HeadOf(b))
         /\ TicketedIn(history', HeadOf(b)))
            => \E i, j \in DOMAIN step'.dispatched :
                  i < j /\ step'.dispatched[i] = a /\ step'.dispatched[j] = b

C25_EarliestBucketFirst == [][C25_EarliestStep]_vars

PacingInstants(s, t) ==
    LET resetOf(w) == IF w.resetAt > t THEN w.resetAt ELSE t + w.window
        usedOf(w) == IF w.resetAt > t THEN w.used ELSE 0
        ws == {s.windows[i] : i \in DOMAIN s.windows}
    IN  {t, s.blockedUntil}
        \cup {resetOf(w) : w \in {v \in ws : usedOf(v) >= v.limit}}
        \cup IF s.lastGranted = ZeroTime THEN {}
             ELSE {s.lastGranted + (resetOf(w) - t) \div (w.limit - usedOf(w)) :
                      w \in {v \in ws : usedOf(v) < v.limit}}

C27_WitnessUnset ==
    /\ rsOp.name = "nextAllowed" /\ ~rsOp.bypass
    /\ rsOp.pre.lastGranted = ZeroTime
    /\ Len(rsOp.pre.windows) > 0
    /\ rsOp.ret = rsOp.at

\* The normal-priority wait of rate state s at time t.
WaitAt(s, t) == nextAllowed(s, t, FALSE) - t

\* Every window of s is still running at time t.
AllActive(s, t) == \A i \in DOMAIN s.windows : s.windows[i].resetAt > t

\* A normal admission asked for at time t on rate state s: it is granted at
\* nextAllowed(t), where consume charges it.
Admitted(s, t) ==
    LET at == nextAllowed(s, t, FALSE)
    IN  [at |-> at, state |-> consume(nextAllowedState(s, at), at).state]

\* TestLimiterResumeAfterIdleTightensPacing in milliseconds: "5:1" / "0:1"
\* observed at 0, the first admit 20 ms later, the second idleBeforeSecond
\* after the first was granted, the third as soon as the second was granted;
\* the value is the third admit's wait.
measureThirdWait(idleBeforeSecond) ==
    LET seeded == apply(EmptyRateState, <<[limit |-> 5, count |-> 0, window |-> SecondMs]>>,
                        Nil, FALSE, 0, 0)
        first == Admitted(seeded, 20)
        second == Admitted(first.state, first.at + idleBeforeSecond)
    IN  WaitAt(second.state, second.at)

\* C28: while every window of a rate state is running and used and
\* lastGranted stay as they are, the normal-priority wait nextAllowed(t,
\* false) - t does not increase as t advances; and in the idle scenario (5
\* per second, 600 ms idle before the second admit) the third admit waits at
\* least 50 ms less than without the idle.
C28_WaitShrinksWithTime ==
    /\ \A t \in now .. MaxTime + 1 : \A u \in t .. MaxTime + 1 :
          AllActive(rs, u) => WaitAt(rs, u) <= WaitAt(rs, t)
    /\ measureThirdWait(600) + 50 <= measureThirdWait(0)

\* A charged, running window that is not full: asking one tick later shortens
\* a wait that pacing causes.
C28_Witness ==
    /\ rsOp.name = "consume" /\ rsOp.ok
    /\ Len(rs.windows) > 0
    /\ AllActive(rs, now + 1)
    /\ \E i \in DOMAIN rs.windows : rs.windows[i].used < rs.windows[i].limit
    /\ WaitAt(rs, now) > nextAllowed(rs, now, TRUE) - now
    /\ WaitAt(rs, now + 1) < WaitAt(rs, now)

\* C29: when apply processes a non-empty parsed list on a scope whose
\* lastGranted is unset and some parsed window has a count > 0, lastGranted
\* becomes now and the next normal request on that scope is not admitted at
\* once (nextAllowed(now, false) > now); when lastGranted is already set, or
\* every parsed count is 0, or the list is empty, apply leaves lastGranted
\* as it was.
C29_AnchorOnSeenCount ==
    (rsOp.name = "observe") =>
        IF /\ rsOp.pre.lastGranted = ZeroTime
           /\ \E i \in DOMAIN hdr.out : hdr.out[i].count > 0
        THEN /\ rs.lastGranted = rsOp.at
             /\ nextAllowed(rs, rsOp.at, FALSE) > rsOp.at
        ELSE rs.lastGranted = rsOp.pre.lastGranted

\* "2:1" with count "1:1" arrives on a scope that never admitted: the scope
\* is anchored, and the one request left in the window is paced although the
\* hard limits would admit it now.
C29_Witness ==
    /\ rsOp.name = "observe"
    /\ rsOp.pre.lastGranted = ZeroTime
    /\ hdr.out = <<[limit |-> 2, count |-> 1, window |-> Second]>>
    /\ rs.lastGranted = rsOp.at
    /\ nextAllowed(rs, rsOp.at, TRUE) = rsOp.at
    /\ nextAllowed(rs, rsOp.at, FALSE) > rsOp.at

\* C30: one RoundTrip of the retry-on-429 transport makes at most maxRetries
\* + 1 upstream attempts; when the attempt after maxRetries retries also
\* ended in 429 it returns that 429 response without error; a non-429
\* response or a transport error ends the sequence at once, with that
\* response or with the error; a context that is done during a Retry-After
\* wait ends it with the context's error and without another attempt; and
\* once RoundTrip has returned, no attempt follows.
C30_Returned ==
    /\ rt.calls <= rt.maxRetries + 1
    /\ (rt.last.kind = "response" /\ rt.last.status = StatusTooManyRequests
           /\ rt.calls = rt.maxRetries + 1) =>
          rt.pc = "done" /\ rt.resp = StatusTooManyRequests /\ rt.err = "none"
    /\ (rt.last.kind = "response" /\ rt.last.status # StatusTooManyRequests) =>
          rt.pc = "done" /\ rt.resp = rt.last.status /\ rt.err = "none"
    /\ rt.last.kind = "error" =>
          rt.pc = "done" /\ rt.resp = NoResponse /\ rt.err = "transport"
C30_CancelStep ==
    /\ (rt.pc = "wait" /\ rt.ctxDone /\ rt' # rt) =>
          rt' = [rt EXCEPT !.pc = "done", !.resp = NoResponse, !.err = "ctx"]
    /\ rt.pc = "done" => rt' = rt
C30_AtMostMaxRetriesPlusOne == []C30_Returned /\ [][C30_CancelStep]_vars

\* maxRetries = 2 retries, each after a 429, then a third 429: three
\* attempts, and the 429 is returned without error.
C30_Witness ==
    /\ rt.pc = "done"
    /\ rt.impl = "retryTransport"
    /\ rt.maxRetries = MaxRetriesBound
    /\ rt.attempt = rt.maxRetries
    /\ rt.calls = rt.maxRetries + 1
    /\ rt.resp = StatusTooManyRequests
    /\ rt.err = "none"

\* The context was cancelled during the wait after the first 429: RoundTrip
\* returned the context's error after that one attempt.
C30_WitnessCancelled ==
    /\ rt.pc = "done"
    /\ rt.err = "ctx"
    /\ rt.ctxDone
    /\ rt.calls = 1
    /\ rt.maxRetries = MaxRetriesBound

\* The reservations of st that were not cancelled and are scheduled in the
\* window of length w that ends at time t.
ScheduledIn(t, w) ==
    {k \in DOMAIN st.reserved :
        ~st.reserved[k].canceled /\ st.reserved[k].when > t - w /\ st.reserved[k].when <= t}

\* C31: State.Reserve respects bucket capacity for any number of successive
\* reservations: for a bucket with limit L and window W, no interval of
\* length W contains more than L scheduled reservation times.
C31_ReserveRespectsCapacity ==
    \A i \in DOMAIN st.buckets : \A k \in DOMAIN st.reserved :
        Cardinality(ScheduledIn(st.reserved[k].when, st.buckets[i].Window))
            <= st.buckets[i].Limit

\* The tickets of the step just taken that charged credential k for region r
\* (app scope) or for bucket b (method scope).
IssuedOnApp(k, r) ==
    {i \in DOMAIN step'.issued :
        step'.issued[i].key = k /\ buckets'[step'.issued[i].bucket].region = r}
IssuedOnMethod(k, b) ==
    {i \in DOMAIN step'.issued : step'.issued[i].key = k /\ step'.issued[i].bucket = b}

\* C32: dispatch never consumes a slot without issuing a ticket: whenever the
\* readiness of a credential for a region, bucket and priority is not after
\* now, consume(now) succeeds on its app scope and on its method scope; the
\* retry branch of dispatch is never taken; and lastGranted of a scope changes
\* only in a step that issues a ticket charged to that scope, or when an
\* observation anchors a scope whose lastGranted was unset.
C32_ReadyState ==
    /\ ~step.retried
    /\ \A k \in DOMAIN keys : \A b \in Buckets : \A r \in Regions :
       \A priority \in {PriorityHigh, PriorityNormal} :
          Readiness(k, r, b, priority) <= now =>
             /\ consume(nextAllowedState(keys[k].app[r], now), now).ok
             /\ consume(nextAllowedState(keys[k].method[b], now), now).ok
C32_ChargeStep ==
    \A k \in DOMAIN keys :
       /\ \A r \in Regions :
             keys'[k].app[r].lastGranted # keys[k].app[r].lastGranted =>
                \/ IssuedOnApp(k, r) # {}
                \/ ObserveReceived /\ keys[k].app[r].lastGranted = ZeroTime
       /\ \A b \in Buckets :
             keys'[k].method[b].lastGranted # keys[k].method[b].lastGranted =>
                \/ IssuedOnMethod(k, b) # {}
                \/ ObserveReceived /\ keys[k].method[b].lastGranted = ZeroTime
C32_NoSlotWithoutTicket == []C32_ReadyState /\ [][C32_ChargeStep]_vars

\* A ticket took the last slot of a running window that an observation had
\* installed with one slot used: consume passed its limit test at the boundary.
C32_Witness ==
    \E i \in DOMAIN step.issued :
        \E sc \in {step.issued[i].app, step.issued[i].method} :
            /\ Len(sc.windows) > 0
            /\ sc.windows[1].resetAt > step.issued[i].at
            /\ sc.windows[1].used + 1 = sc.windows[1].limit
            /\ sc.windows[1].used > 0

\* C33: while the loop runs, a bucket is in the wake heap exactly when it
\* holds at least one queued request; its heapIndex is its position in the
\* heap and -1 when it is absent; no bucket is in the heap twice; a bucket in
\* the heap has a wake time; and wakeups[0], for which the timer is armed,
\* has the smallest wakeAt of the heap.
C33_NoWakeLost ==
    loopAlive =>
        /\ \A b \in Buckets :
              /\ (buckets[b].exists /\ depth(buckets[b]) > 0) <=>
                    (\E i \in DOMAIN wakeups : wakeups[i] = b)
              /\ IF \E i \in DOMAIN wakeups : wakeups[i] = b
                 THEN /\ buckets[b].heapIndex + 1 \in DOMAIN wakeups
                      /\ wakeups[buckets[b].heapIndex + 1] = b
                      /\ buckets[b].wakeAt # ZeroTime
                 ELSE buckets[b].heapIndex = -1
        /\ \A i, j \in DOMAIN wakeups : wakeups[i] = wakeups[j] => i = j
        /\ \A i \in DOMAIN wakeups :
              buckets[wakeups[1]].wakeAt <= buckets[wakeups[i]].wakeAt

\* Two buckets wait in the heap and the one that entered later is at its
\* top, with the earlier wake.
C33_Witness ==
    /\ loopAlive
    /\ wakeups = <<"na1:b", "na1:a">>
    /\ buckets["na1:b"].wakeAt < buckets["na1:a"].wakeAt
    /\ depth(buckets["na1:a"]) > 0
    /\ depth(buckets["na1:b"]) > 0

\* Request r sits in the high or normal queue of some bucket.
Queued(r) ==
    \E b \in Buckets :
        buckets[b].exists /\ r \in SeqToSet(buckets[b].high) \cup SeqToSet(buckets[b].normal)

\* A ticket or shutting_down was posted for r, or Admit returned it.
Answered(r) ==
    \/ resp[r] # << >> /\ (Head(resp[r]).kind = "ticket" \/ Head(resp[r]).reason = "shutting_down")
    \/ result[r].kind = "ticket"
    \/ result[r].reason = "shutting_down"

\* C34: with an advancing clock, a fairly scheduled loop and finitely many
\* calls, every request that waits in a queue with a live context is
\* eventually answered with a ticket or with shutting_down, unless its
\* context is cancelled first.
C34_QueuedEventuallyAnswered ==
    \A r \in Requests : (Queued(r) /\ ~ctxErr[r]) ~> (Answered(r) \/ ctxErr[r])

\* A timer expiry issued the ticket of a request that had waited in the
\* queue behind a Retry-After block or a full window.
C34_Witness ==
    /\ step.op = "timer"
    /\ now > MaxTime
    /\ \E i \in DOMAIN step.issued :
          /\ Answered(step.issued[i].req)
          /\ nextAllowed(step.issued[i].method, step.issued[i].at - 1, TRUE)
                > step.issued[i].at - 1

\* The replies the loop can post on req.resp.
LoopReplies ==
    {r \in [kind : {"ticket", "rejected", "ctx"}, key : -1 .. 1,
            reason : {"", "queue_full", "no_available_key", "shutting_down"},
            retryAfter : 0 .. (MaxTime + 2) * Second] :
        \/ r.kind = "ticket" /\ r.reason = ""
        \/ r.kind = "ctx" /\ r.reason = ""
        \/ r.kind = "rejected" /\ r.reason # ""}

\* No reply was ever posted for request r.
Unanswered(r) == resp[r] = << >> /\ result[r].kind \in {"none", "ctx"}

\* At most one reply sits on a reply channel, and a request that is in a
\* queue is there once and has not been replied to.
C35_ReplyState ==
    \A r \in Requests :
        /\ Len(resp[r]) <= 1
        /\ Queued(r) =>
              /\ Unanswered(r)
              /\ Cardinality({<<b, p, i>> \in Buckets \X {"high", "normal"} \X (1 .. MaxCalls) :
                                /\ i <= Len(buckets[b][p])
                                /\ buckets[b][p][i] = r}) = 1

\* A step of the loop that posts a reply for r finds the channel empty, is
\* the receipt of r or finds r in a queue, and leaves r in no queue.
C35_ReplyStep ==
    \A r \in Requests :
        Len(resp'[r]) > Len(resp[r]) =>
            /\ resp[r] = << >>
            /\ Len(resp'[r]) = 1
            /\ resp'[r][1] \in LoopReplies
            /\ result[r].kind \in {"none", "ctx"}
            /\ (pc[r] = "sending" /\ pc'[r] = "waiting") \/ Queued(r)
            /\ \A b \in Buckets :
                  r \notin SeqToSet(buckets'[b].high) \cup SeqToSet(buckets'[b].normal)

\* C35: every admit request handed to the loop gets at most one reply on its
\* single-slot reply channel, and a request that was replied to is in no
\* queue, so a reply send of the loop never finds the channel full.
C35_AtMostOneReply == []C35_ReplyState /\ [][C35_ReplyStep]_vars

\* A ticket was posted for a queued request whose Admit had already returned
\* the context error; nobody reads the reply and no second one follows.
C35_Witness ==
    \E r \in Requests :
        /\ pc[r] = "done"
        /\ result[r] = CtxError
        /\ Enqueued(r)
        /\ resp[r] # << >>
        /\ resp[r][1].kind = "ticket"

\* Close answered a queued request with shutting_down.
C35_WitnessClose ==
    /\ step.op = "close"
    /\ \E r \in Requests :
          /\ Enqueued(r)
          /\ resp[r] # << >>
          /\ resp[r][1].reason = "shutting_down"

\* C36 (state part): the depth of every bucket, cancelled entries that were
\* not skipped yet included, is at most QueueCapacity.
C36_DepthState ==
    \A b \in Buckets : depth(buckets[b]) <= cfg.QueueCapacity

\* A bucket's depth grows only in the receipt of an admit request, by one,
\* from a depth below QueueCapacity; a deferred request goes back to the head
\* of the queue it was taken from.
C36_DepthStep ==
    \A b \in Buckets :
        /\ depth(buckets'[b]) > depth(buckets[b]) =>
              /\ step'.op = "admit"
              /\ depth(buckets[b]) < cfg.QueueCapacity
              /\ depth(buckets'[b]) = depth(buckets[b]) + 1
        /\ \A r \in Requests :
              LET before == buckets[b]
                  after == buckets'[b]
              IN  /\ (r \in SeqToSet(after.high) /\ r \in SeqToSet(before.high \o before.normal))
                        => r \in SeqToSet(before.high)
                  /\ (r \in SeqToSet(after.normal) /\ r \in SeqToSet(before.high \o before.normal))
                        => r \in SeqToSet(before.normal)
                  /\ \A p \in {"high", "normal"} :
                        LET live(q) == SelectSeq(q, LAMBDA x : ~ctxErr[x])
                        IN  (/\ live(before[p]) # << >>
                             /\ Head(live(before[p])) = r
                             /\ r \in SeqToSet(after[p]))
                               => Head(live(after[p])) = r

\* C36: in every reachable state every bucket's depth (high + normal) is at
\* most QueueCapacity: a request is enqueued only when depth < QueueCapacity
\* and a deferred request is put back where it was removed from.
C36_DepthWithinCapacity == []C36_DepthState /\ [][C36_DepthStep]_vars

\* A bucket is filled to QueueCapacity, one of its entries is cancelled and
\* not skipped yet, and its head was deferred (the bucket has a wake-up).
C36_Witness ==
    \E b \in Buckets :
        /\ loopAlive
        /\ depth(buckets[b]) = cfg.QueueCapacity
        /\ \E r \in QueuedIn(buckets[b]) : ctxErr[r]
        /\ \E r \in QueuedIn(buckets[b]) : ~ctxErr[r]
        /\ buckets[b].wakeAt > now

\* Rate state s2 follows s at time t without a refund: the same windows, each
\* still-running one with a used at least as high and its resetAt kept, each
\* expired one untouched or restarted at t, and lastGranted not earlier.
NoRefund(s, s2, t) ==
    /\ Len(s2.windows) = Len(s.windows)
    /\ s2.lastGranted >= s.lastGranted
    /\ \A i \in DOMAIN s.windows :
          LET w == s.windows[i]
              w2 == s2.windows[i]
          IN  /\ w2.limit = w.limit /\ w2.window = w.window
              /\ IF w.resetAt > t
                 THEN w2.resetAt = w.resetAt /\ w2.used >= w.used
                 ELSE w2 = w \/ w2.resetAt = t + w.window

\* The ticket of request r was posted while its context fired, and Admit
\* returns the cancellation error.
CancelledWithTicket(r) ==
    /\ resp[r] # << >>
    /\ resp[r][1].kind = "ticket"
    /\ pc[r] = "waiting" /\ pc'[r] = "done"
    /\ result'[r] = CtxError

\* Outside the receipt of an observation no scope is refunded; a step that
\* issues a ticket leaves both scopes granted at now; an Admit that returns
\* the cancellation error over a posted ticket changes no rate state.
C37_ChargeStep ==
    /\ ~ObserveReceived =>
          \A k \in DOMAIN keys :
              /\ \A r \in Regions : NoRefund(keys[k].app[r], keys'[k].app[r], now)
              /\ \A b \in Buckets : NoRefund(keys[k].method[b], keys'[k].method[b], now)
    /\ step' # step =>
          \A i \in DOMAIN step'.issued :
              LET t == step'.issued[i]
                  a == keys'[t.key].app[buckets'[t.bucket].region]
                  m == keys'[t.key].method[t.bucket]
              IN  /\ a.lastGranted = now /\ m.lastGranted = now
                  /\ \A j \in DOMAIN a.windows : a.windows[j].used >= 1
                  /\ \A j \in DOMAIN m.windows : m.windows[j].used >= 1
    /\ \A r \in Requests : CancelledWithTicket(r) => keys' = keys

\* C37: consumed budget is never refunded: after dispatch has consumed a slot
\* and posted a ticket the windows' used and lastGranted stay charged, also
\* when the caller's Admit returns the cancellation error over the posted
\* ticket; used decreases only through a window's reset or through
\* replacement by an observation.
C37_NeverRefunded == [][C37_ChargeStep]_vars

\* Admit returned the cancellation error although the ticket was posted, and
\* the slot is still charged to a running window.
C37_Witness ==
    \E i \in DOMAIN step.issued :
        LET t == step.issued[i]
            a == keys[t.key].app[buckets[t.bucket].region]
        IN  /\ pc[t.req] = "done"
            /\ result[t.req] = CtxError
            /\ resp[t.req] # << >>
            /\ resp[t.req][1].kind = "ticket"
            /\ a.lastGranted = t.at
            /\ \E j \in DOMAIN a.windows : a.windows[j].used >= 1 /\ a.windows[j].resetAt > now

\* The loop has received Close's done channel.
CloseHandled == closePc \in {"waiting", "returned"}

\* Once Close is handled the loop has returned.
C38_ClosedState == CloseHandled => ~loopAlive

\* After Close is handled: no reply is posted, no observation is received,
\* rate state, queues and wake-ups stay as they are, and an Admit that is
\* blocked on the admit channel (it started before or after the Close) leaves
\* that select only through ctx.Done(), returning the cancellation error.
\* An Admit with an empty region or bucket returns invalid_route before it
\* reaches the admit channel.
C38_ClosedStep ==
    CloseHandled =>
        /\ keys' = keys /\ buckets' = buckets /\ wakeups' = wakeups
        /\ observeCh' >= observeCh
        /\ history' = history
        /\ \A r \in Requests :
              /\ Len(resp'[r]) <= Len(resp[r])
              /\ (pc[r] = "sending" /\ pc'[r] # "sending") =>
                    /\ ctxErr[r]
                    /\ pc'[r] = "done"
                    /\ result'[r] = CtxError
              /\ (pc[r] = "idle" /\ pc'[r] # "idle") =>
                    \/ pc'[r] = "sending"
                    \/ /\ adm'[r].Region = "" \/ adm'[r].Bucket = ""
                       /\ result'[r] = Rejected("invalid_route", 0)

\* C38: after the loop has handled Close it processes nothing further: no
\* ticket or rejection is posted, rate state and queues no longer change, and
\* an Admit that starts later or was still blocked handing its request to the
\* loop ends only with its context's cancellation error.
C38_NothingAfterClose == []C38_ClosedState /\ [][C38_ClosedStep]_vars

\* Close has returned after the loop had queued a request, and an Admit is
\* still blocked on the admit channel with its context cancelled: all it can
\* do is return the cancellation error.
C38_Witness ==
    /\ closePc = "returned"
    /\ \E r \in Requests :
          /\ pc[r] = "sending"
          /\ ctxErr[r]
          /\ \E q \in Requests : q < r /\ Enqueued(q)

\* The latest of t, the block and the resetAt of the windows of s as a visit
\* at t leaves them.
LatestReset(s, t) ==
    SetMax({t, s.blockedUntil}
           \cup {nextAllowedWindows(s, t)[i].resetAt : i \in DOMAIN s.windows})

\* C39: pacing never delays a request beyond a window reset: for a rate state
\* with lastGranted <= now, nextAllowed(now, false) is at most the latest of
\* now, blockedUntil and the resetAt of its windows after refresh.
C39_PacingWithinReset ==
    /\ rs.lastGranted <= now => nextAllowed(rs, now, FALSE) <= LatestReset(rs, now)
    /\ (rsOp.name = "nextAllowed" /\ ~rsOp.bypass /\ rsOp.pre.lastGranted <= rsOp.at) =>
          /\ rsOp.ret <= LatestReset(rsOp.pre, rsOp.at)
          /\ rsOp.ret - rsOp.at <=
                SetMax({0, rsOp.pre.blockedUntil - rsOp.at}
                       \cup {rsOp.pre.windows[i].window : i \in DOMAIN rsOp.pre.windows})

\* A paced call was delayed by pacing alone (no block and no full window
\* asked for the wait) on a state with two windows, and returned an instant
\* before the later reset.
C39_Witness ==
    /\ rsOp.name = "nextAllowed" /\ ~rsOp.bypass
    /\ rsOp.pre.lastGranted # ZeroTime /\ rsOp.pre.lastGranted <= rsOp.at
    /\ Len(rsOp.pre.windows) = 2
    /\ nextAllowed(rsOp.pre, rsOp.at, TRUE) = rsOp.at
    /\ rsOp.ret > rsOp.at
    /\ rsOp.ret < LatestReset(rsOp.pre, rsOp.at)

\* A paced call returned exactly the latest reset, which no hard limit asked
\* for: the bound is attained.
C39_WitnessTight ==
    /\ rsOp.name = "nextAllowed" /\ ~rsOp.bypass
    /\ rsOp.pre.lastGranted # ZeroTime /\ rsOp.pre.lastGranted <= rsOp.at
    /\ nextAllowed(rsOp.pre, rsOp.at, TRUE) = rsOp.at
    /\ rsOp.ret > rsOp.at
    /\ rsOp.ret = LatestReset(rsOp.pre, rsOp.at)

\* Every reply the loop posted or Admit returned, for request r.
RepliesOf(r) == SeqToSet(resp[r]) \cup {result[r]}

\* C40: for a limiter built by New every issued ticket has
\* 0 <= KeyIndex < KeyCount and no_available_key is never produced: pickKey
\* returns an index of the credential list for every region, bucket and
\* priority.
C40_KeyIndexInRange ==
    /\ cfg.KeyCount > 0
    /\ DOMAIN keys = 0 .. (cfg.KeyCount - 1)
    /\ \A r \in Requests : \A reply \in RepliesOf(r) :
          /\ reply.reason # "no_available_key"
          /\ reply.kind = "ticket" => reply.key \in 0 .. (cfg.KeyCount - 1)
    /\ \A i \in DOMAIN step.issued : step.issued[i].key \in 0 .. (cfg.KeyCount - 1)
    /\ \A region \in Regions, b \in Buckets, priority \in {PriorityNormal, PriorityHigh} :
          pickKey(keys, now, region, b, priority).index \in 0 .. (cfg.KeyCount - 1)

\* With two credentials, tickets were issued on the first and on the last.
C40_Witness ==
    /\ cfg.KeyCount = 2
    /\ \E r, q \in Requests :
          /\ \E reply \in RepliesOf(r) : reply.kind = "ticket" /\ reply.key = 0
          /\ \E reply \in RepliesOf(q) : reply.kind = "ticket" /\ reply.key = cfg.KeyCount - 1

\* With a single credential every ticket carries KeyIndex 0, also for a
\* request that had to wait for it.
C40_WitnessOneKey ==
    /\ cfg.KeyCount = 1
    /\ \E r \in Requests :
          /\ Enqueued(r) /\ Ticketed(r)
          /\ EventAt("ticket", r) > EventAt("enq", r) + 1
          /\ \E reply \in RepliesOf(r) : reply.kind = "ticket" /\ reply.key = 0

====
